---- MODULE Spec2Model ----
(***************************************************************************)
(* A model of the imagecat core: the Length Resolver (imagecat/units.py),  *)
(* the Layer/Image data model and the Layer Selector (imagecat/data.py),   *)
(* the Affine Compositor (imagecat/operator/util.py, transform.py) and the *)
(* operators built on them.                                                *)
(*                                                                         *)
(* Text is modelled as a sequence of one-character strings, so that        *)
(* splitting, lower-casing and glob matching are computed character by     *)
(* character.  A Python float is modelled as an exact rational <<n, d>>,   *)
(* d > 0, in lowest terms; the decimal literals of the input sets are      *)
(* dyadic (0.5, 1.5, ...), for which binary floating point is exact.       *)
(*                                                                         *)
(* call is the record of the last call made (its arguments and outcome),   *)
(* heap the objects that exist.                                            *)
(***************************************************************************)
EXTENDS Integers, Sequences, FiniteSets, TLC

VARIABLES call, heap

vars == <<call, heap>>

NoCall == [op |-> "none"]

EmptyHeap == [arrays |-> <<>>, layers |-> <<>>, dicts |-> <<>>, images |-> <<>>]

(***************************************************************************)
(* Rationals.                                                              *)
(***************************************************************************)
Abs(n) == IF n < 0 THEN -n ELSE n

RECURSIVE Gcd(_, _)
Gcd(a, b) == IF b = 0 THEN a ELSE Gcd(b, a % b)

Rat(n, d) ==
    LET g == Gcd(Abs(n), Abs(d))
        s == IF d < 0 THEN -1 ELSE 1
    IN  <<(s * n) \div g, (s * d) \div g>>

Int2Rat(n) == <<n, 1>>
RAdd(p, q) == Rat(p[1] * q[2] + q[1] * p[2], p[2] * q[2])
RNeg(p) == <<-p[1], p[2]>>
RSub(p, q) == RAdd(p, RNeg(q))
RMul(p, q) == Rat(p[1] * q[1], p[2] * q[2])
RLess(p, q) == p[1] * q[2] < q[1] * p[2]
RLeq(p, q) == p[1] * q[2] <= q[1] * p[2]
RMin(p, q) == IF RLeq(p, q) THEN p ELSE q
RMax(p, q) == IF RLeq(p, q) THEN q ELSE p
RFloor(p) == p[1] \div p[2]
RCeil(p) == -((-p[1]) \div p[2])
RIsInt(p) == p[2] = 1

(***************************************************************************)
(* Characters and text.                                                    *)
(***************************************************************************)
UpperCase == <<"A","B","C","D","E","F","G","H","I","J","K","L","M",
               "N","O","P","Q","R","S","T","U","V","W","X","Y","Z">>
LowerCase == <<"a","b","c","d","e","f","g","h","i","j","k","l","m",
               "n","o","p","q","r","s","t","u","v","w","x","y","z">>
Digits == <<"0","1","2","3","4","5","6","7","8","9">>

IsUpper(c) == \E i \in DOMAIN UpperCase : UpperCase[i] = c
IsLower(c) == \E i \in DOMAIN LowerCase : LowerCase[i] = c
IsAlpha(c) == IsUpper(c) \/ IsLower(c)
IsDigit(c) == \E i \in DOMAIN Digits : Digits[i] = c
IsSpace(c) == c \in {" ", "\t", "\n", "\r"}
DigitVal(c) == (CHOOSE i \in DOMAIN Digits : Digits[i] = c) - 1

\* str.lower(), on ASCII text
CharLower(c) ==
    IF IsUpper(c) THEN LowerCase[CHOOSE i \in DOMAIN UpperCase : UpperCase[i] = c] ELSE c
StrLower(s) == [i \in DOMAIN s |-> CharLower(s[i])]

RECURSIVE Pow10(_)
Pow10(k) == IF k = 0 THEN 1 ELSE 10 * Pow10(k - 1)

RECURSIVE DigitsVal(_)
DigitsVal(s) ==
    IF s = <<>> THEN 0 ELSE 10 * DigitsVal(SubSeq(s, 1, Len(s) - 1)) + DigitVal(s[Len(s)])

\* str.strip() of whitespace at both ends
RECURSIVE StripLeft(_)
StripLeft(s) == IF s # <<>> /\ IsSpace(s[1]) THEN StripLeft(Tail(s)) ELSE s
RECURSIVE StripRight(_)
StripRight(s) ==
    IF s # <<>> /\ IsSpace(s[Len(s)]) THEN StripRight(SubSeq(s, 1, Len(s) - 1)) ELSE s
Strip(s) == StripRight(StripLeft(s))

\* the positions of s (or none) holding c
Positions(s, c) == {i \in DOMAIN s : s[i] = c}
Without(s, c) == SelectSeq(s, LAMBDA x : x # c)

(***************************************************************************)
(* float(text) for a text without letters: surrounding whitespace is       *)
(* dropped, then an optional sign, then digits with at most one "." and at *)
(* least one digit; "_" may stand between two digits.  Anything else is a  *)
(* ValueError.  The value is an exact rational.                            *)
(***************************************************************************)
FloatError == <<"ValueError">>

\* the digits before and after the point
FloatDigits(whole, frac) ==
    Rat(DigitsVal(whole) * Pow10(Len(frac)) + DigitsVal(frac), Pow10(Len(frac)))

\* b holds digits and points only; dots are the positions of its points
FloatDotted(b, dots) ==
    IF \/ Cardinality(dots) > 1
       \/ \E i \in DOMAIN b : ~(IsDigit(b[i]) \/ b[i] = ".")
       \/ \A i \in DOMAIN b : ~IsDigit(b[i])
    THEN FloatError
    ELSE IF dots = {} THEN FloatDigits(b, <<>>)
    ELSE FloatDigits(SubSeq(b, 1, (CHOOSE i \in dots : TRUE) - 1),
                     SubSeq(b, (CHOOSE i \in dots : TRUE) + 1, Len(b)))

FloatPlain(b) == FloatDotted(b, Positions(b, "."))

\* the text after the sign: "_" stands between two digits only
FloatBody(body) ==
    IF \E i \in Positions(body, "_") :
          ~(i > 1 /\ i < Len(body) /\ IsDigit(body[i - 1]) /\ IsDigit(body[i + 1]))
    THEN FloatError
    ELSE FloatPlain(Without(body, "_"))

FloatSigned(negative, mag) ==
    IF mag = FloatError THEN FloatError ELSE IF negative THEN RNeg(mag) ELSE mag

FloatStripped(t) ==
    IF t # <<>> /\ t[1] \in {"+", "-"} THEN FloatSigned(t[1] = "-", FloatBody(Tail(t)))
    ELSE FloatBody(t)

PyFloat(text) == FloatStripped(Strip(text))

(***************************************************************************)
(* Length Resolver: imagecat/units.py.                                     *)
(*                                                                         *)
(* A length value is a record: a number [kind |-> "number", v |-> q], a    *)
(* string [kind |-> "str", s |-> text], a tuple [kind |-> "tuple",         *)
(* items |-> <<...>>] of such values, or [kind |-> "none"] for any other   *)
(* object.  An outcome is [status |-> "ok", value |-> q] or a raised       *)
(* exception [status |-> "ValueError" | "AttributeError", value |-> <<>>]. *)
(***************************************************************************)
Ok(v) == [status |-> "ok", value |-> v]
Raise(e) == [status |-> e, value |-> <<>>]

Number(q) == [kind |-> "number", v |-> q]
Str(s) == [kind |-> "str", s |-> s]
Tuple(items) == [kind |-> "tuple", items |-> items]
None == [kind |-> "none"]

\* a character of the class [a-zA-Z%]
IsUnitChar(c) == IsAlpha(c) \/ c = "%"

\* re.match(r"([^a-zA-Z%]+)([a-zA-Z%]+)\Z", s): the split <<prefix, suffix>>, or <<>>
\* when the text does not match
LengthMatch(s) ==
    LET ks == {k \in 1..(Len(s) - 1) :
                  /\ \A i \in 1..k : ~IsUnitChar(s[i])
                  /\ \A i \in (k + 1)..Len(s) : IsUnitChar(s[i])}
    IN  IF ks = {} THEN <<>>
        ELSE LET k == CHOOSE k \in ks : TRUE
             IN  <<SubSeq(s, 1, k), SubSeq(s, k + 1, Len(s))>>

Min2(a, b) == IF a <= b THEN a ELSE b
Max2(a, b) == IF a <= b THEN b ELSE a

\* LengthUnits without the lower-casing of line 73
LengthUnitsCaseSensitive(v, units, size) ==
    LET u == units
    IN  IF u \in {<<"p","x">>, <<"p","i","x","e","l">>, <<"p","i","x","e","l","s">>}
          THEN Ok(v)
        ELSE IF u \in {<<"w">>, <<"w","i","d","t","h">>}
          THEN Ok(RMul(v, Int2Rat(size[1])))
        ELSE IF u \in {<<"h">>, <<"h","e","i","g","h","t">>}
          THEN Ok(RMul(v, Int2Rat(size[2])))
        ELSE IF u \in {<<"m","i","n">>}
          THEN Ok(RMul(v, Int2Rat(Min2(size[1], size[2]))))
        ELSE IF u \in {<<"m","a","x">>}
          THEN Ok(RMul(v, Int2Rat(Max2(size[1], size[2]))))
        ELSE Raise("ValueError")

\* lines 72-84: the unit, lower-cased, selects the reference
LengthUnits(v, units, size) ==
    LET u == StrLower(units)
    IN  IF u \in {<<"p","x">>, <<"p","i","x","e","l">>, <<"p","i","x","e","l","s">>}
          THEN Ok(v)
        ELSE IF u \in {<<"w">>, <<"w","i","d","t","h">>}
          THEN Ok(RMul(v, Int2Rat(size[1])))
        ELSE IF u \in {<<"h">>, <<"h","e","i","g","h","t">>}
          THEN Ok(RMul(v, Int2Rat(size[2])))
        ELSE IF u \in {<<"m","i","n">>}
          THEN Ok(RMul(v, Int2Rat(Min2(size[1], size[2]))))
        ELSE IF u \in {<<"m","a","x">>}
          THEN Ok(RMul(v, Int2Rat(Max2(size[1], size[2]))))
        ELSE Raise("ValueError")

\* lines 63-72: the (number, unit) tuple is validated, then resolved
LengthTuple(value, size) ==
    IF value.kind # "tuple" THEN Raise("ValueError")
    ELSE IF Len(value.items) # 2 THEN Raise("ValueError")
    ELSE IF value.items[1].kind # "number" THEN Raise("ValueError")
    ELSE IF value.items[2].kind # "str" THEN Raise("ValueError")
    ELSE LengthUnits(value.items[1].v, value.items[2].s, size)

\* line 61: the text before the unit becomes a float
LengthParsed(m, f, size) ==
    IF f = FloatError THEN Raise("ValueError")
    ELSE LengthTuple(Tuple(<<Number(f), Str(m[2])>>), size)

\* lines 60-61: a string that does not match leaves re.match's None, whose .groups()
\* raises AttributeError
LengthSplit(m, size) ==
    IF m = <<>> THEN Raise("AttributeError") ELSE LengthParsed(m, PyFloat(m[1]), size)

\* length(value, size, default): lines 57-61 bring a number or a string to a tuple
LengthDefault(value, size, default) ==
    IF value.kind = "number" THEN LengthTuple(Tuple(<<value, Str(default)>>), size)
    ELSE IF value.kind = "str" THEN LengthSplit(LengthMatch(value.s), size)
    ELSE LengthTuple(value, size)

\* length(value, size), with default="px"
Length(value, size) == LengthDefault(value, size, <<"p","x">>)

(***************************************************************************)
(* Calls of length.  A string argument is the text of a number followed by *)
(* the text of a unit; each text is listed with what it denotes (the       *)
(* number's value, <<>> when the text is no number; the unit's canonical   *)
(* spelling, "unknown" or "empty"), which the properties below refer to.   *)
(***************************************************************************)
MaxNumber == 5

NumberTexts ==
    { [text |-> <<"5">>, v |-> <<5, 1>>],
      [text |-> <<"0", ".", "5">>, v |-> <<1, 2>>],
      [text |-> <<"1">>, v |-> <<1, 1>>],
      [text |-> <<"2">>, v |-> <<2, 1>>],
      [text |-> <<"3">>, v |-> <<3, 1>>],
      [text |-> <<"1", "2">>, v |-> <<12, 1>>],
      [text |-> <<"-", "1">>, v |-> <<-1, 1>>],
      [text |-> <<".", "5">>, v |-> <<1, 2>>],
      [text |-> <<"1", ".", "5">>, v |-> <<3, 2>>],
      [text |-> <<" ", "2", " ">>, v |-> <<2, 1>>],
      [text |-> <<"1", "_", "0">>, v |-> <<10, 1>>],
      [text |-> <<"1", ".", "2", ".", "3">>, v |-> <<>>],
      [text |-> <<"-">>, v |-> <<>>],
      [text |-> <<>>, v |-> <<>>] }

UnitTexts ==
    { [text |-> <<"p","x">>, canon |-> "px"],
      [text |-> <<"P","X">>, canon |-> "px"],
      [text |-> <<"p","i","x","e","l">>, canon |-> "px"],
      [text |-> <<"P","i","x","e","l","s">>, canon |-> "px"],
      [text |-> <<"p","i","x","e","l","s">>, canon |-> "px"],
      [text |-> <<"w">>, canon |-> "w"],
      [text |-> <<"W">>, canon |-> "w"],
      [text |-> <<"w","i","d","t","h">>, canon |-> "w"],
      [text |-> <<"W","I","D","T","H">>, canon |-> "w"],
      [text |-> <<"h">>, canon |-> "h"],
      [text |-> <<"H">>, canon |-> "h"],
      [text |-> <<"h","e","i","g","h","t">>, canon |-> "h"],
      [text |-> <<"H","e","i","g","h","t">>, canon |-> "h"],
      [text |-> <<"m","i","n">>, canon |-> "min"],
      [text |-> <<"M","I","N">>, canon |-> "min"],
      [text |-> <<"m","a","x">>, canon |-> "max"],
      [text |-> <<"m","A","x">>, canon |-> "max"],
      [text |-> <<"f","u","r","l","o","n","g","s">>, canon |-> "unknown"],
      [text |-> <<"b","o","g","u","s">>, canon |-> "unknown"],
      [text |-> <<"v","w">>, canon |-> "unknown"],
      [text |-> <<"%">>, canon |-> "unknown"],
      [text |-> <<>>, canon |-> "empty"] }

SupportedUnits == {"px", "w", "h", "min", "max"}

DefaultUnit == [text |-> <<"p","x">>, canon |-> "px"]

Sizes == {<<100, 50>>, <<50, 100>>, <<3, 3>>}

Pending == [status |-> "pending", value |-> <<>>]

LengthRequest(form, num, unit, value, size) ==
    [op |-> "length", form |-> form, num |-> num, unit |-> unit,
     value |-> value, size |-> size, out |-> Pending]

\* length(n, size) for a plain number
NumberRequests ==
    { LengthRequest("number", [text |-> <<>>, v |-> Int2Rat(n)], DefaultUnit,
                    Number(Int2Rat(n)), size) :
        n \in (-MaxNumber)..MaxNumber, size \in Sizes }

\* length("<number><unit>", size)
StringRequests ==
    { LengthRequest("str", num, unit, Str(num.text \o unit.text), size) :
        num \in NumberTexts, unit \in UnitTexts, size \in Sizes }

\* length((number, unit), size)
TupleRequests ==
    { LengthRequest("tuple", num, unit, Tuple(<<Number(num.v), Str(unit.text)>>), size) :
        num \in {n \in NumberTexts : n.v # <<>>}, unit \in UnitTexts, size \in Sizes }

\* length of an object that is no number, string or 2-tuple of (number, string)
OtherRequests ==
    { LengthRequest("other", [text |-> <<>>, v |-> <<>>],
                    [text |-> <<>>, canon |-> "empty"], value, size) :
        value \in {None, Tuple(<<>>), Tuple(<<Number(<<1, 1>>)>>),
                   Tuple(<<Str(<<"1">>), Str(<<"p","x">>)>>),
                   Tuple(<<Number(<<1, 1>>), Number(<<1, 1>>)>>)},
        size \in Sizes }

UnitsInit ==
    /\ call \in NumberRequests \cup StringRequests \cup TupleRequests \cup OtherRequests
    /\ heap = EmptyHeap

\* the call of length is made
LengthCall ==
    /\ call.op = "length"
    /\ call.out = Pending
    /\ call' = [call EXCEPT !.out = Length(call.value, call.size)]
    /\ UNCHANGED heap

UnitsNext == LengthCall

SpecUnits == UnitsInit /\ [][UnitsNext]_vars

\* what a unit multiplies the number by
UnitFactor(canon, size) ==
    CASE canon = "px" -> 1
      [] canon = "w" -> size[1]
      [] canon = "h" -> size[2]
      [] canon = "min" -> IF size[1] < size[2] THEN size[1] ELSE size[2]
      [] canon = "max" -> IF size[1] < size[2] THEN size[2] ELSE size[1]

IsLengthCall == call.op = "length" /\ call.out # Pending

\* C3: length returns v for px/pixel/pixels, v*width for w/width, v*height for
\* h/height, v*min(width,height) for min and v*max(width,height) for max, whatever
\* the case the unit is spelled in and whether the value is a number, a string or a
\* tuple; with size (100,50): 5 -> 5, "0.5w" -> 50, "1h" -> 50, "2min" -> 100.
C3_LengthResolves ==
    IsLengthCall =>
        /\ (call.form \in {"number", "str", "tuple"} /\ call.num.v # <<>>
                /\ call.unit.canon \in SupportedUnits)
             => call.out = Ok(RMul(call.num.v, Int2Rat(UnitFactor(call.unit.canon, call.size))))
        /\ call.size = <<100, 50>> =>
             /\ call.value = Number(<<5, 1>>) => call.out = Ok(<<5, 1>>)
             /\ call.value = Str(<<"0", ".", "5", "w">>) => call.out = Ok(<<50, 1>>)
             /\ call.value = Str(<<"0", ".", "5", "W">>) => call.out = Ok(<<50, 1>>)
             /\ call.value = Str(<<"1", "h">>) => call.out = Ok(<<50, 1>>)
             /\ call.value = Str(<<"2", "m", "i", "n">>) => call.out = Ok(<<100, 1>>)

C3_Witness ==
    /\ IsLengthCall
    /\ call.value = Str(<<"0", ".", "5", "W">>)
    /\ call.size = <<100, 50>>
    /\ call.out = Ok(<<50, 1>>)

\* C4: a string that has no numeric prefix followed by an alphabetic unit suffix
\* ("bogus", "12"), and a string whose unit is not supported ("3furlongs"), both
\* make length raise ValueError; no number is returned.
C4_BadLengthIsValueError ==
    (IsLengthCall /\ call.form = "str"
        /\ (call.num.text = <<>> \/ call.unit.canon \notin SupportedUnits))
      => call.out = Raise("ValueError")

(***************************************************************************)
(* Layer Selector: match_layer_names of imagecat/data.py (match_layers of  *)
(* imagecat/util.py is the same loop, as a generator).                     *)
(***************************************************************************)

\* str.split(): the maximal runs of non-whitespace characters, in order
RECURSIVE SplitFrom(_, _)
SplitFrom(s, word) ==
    IF s = <<>> THEN (IF word = <<>> THEN <<>> ELSE <<word>>)
    ELSE IF IsSpace(s[1])
      THEN (IF word = <<>> THEN <<>> ELSE <<word>>) \o SplitFrom(Tail(s), <<>>)
    ELSE SplitFrom(Tail(s), Append(word, s[1]))

Split(s) == SplitFrom(s, <<>>)

\* fnmatch.translate on a pattern that begins with "[": the index of the "]" that
\* closes the character class, or 0 when there is none and the "[" is literal
RECURSIVE ClassScan(_, _)
ClassScan(p, j) == IF j <= Len(p) /\ p[j] # "]" THEN ClassScan(p, j + 1) ELSE j

ClassEnd(p) ==
    LET j1 == IF 2 <= Len(p) /\ p[2] = "!" THEN 3 ELSE 2
        j2 == IF j1 <= Len(p) /\ p[j1] = "]" THEN j1 + 1 ELSE j1
        j == ClassScan(p, j2)
    IN  IF j > Len(p) THEN 0 ELSE j

\* whether character c is in the class [stuff] (no ranges: "-" is not in the
\* alphabet of the patterns)
InClass(c, stuff) ==
    IF stuff[1] = "!" THEN \A i \in 2..Len(stuff) : stuff[i] # c
    ELSE \E i \in DOMAIN stuff : stuff[i] = c

\* fnmatch.fnmatchcase(name, pat)
RECURSIVE Fnmatchcase(_, _)
Fnmatchcase(name, pat) ==
    IF pat = <<>> THEN name = <<>>
    ELSE IF pat[1] = "*" THEN
        \/ Fnmatchcase(name, Tail(pat))
        \/ name # <<>> /\ Fnmatchcase(Tail(name), pat)
    ELSE IF pat[1] = "?" THEN name # <<>> /\ Fnmatchcase(Tail(name), Tail(pat))
    ELSE IF pat[1] = "[" /\ ClassEnd(pat) # 0 THEN
        LET j == ClassEnd(pat)
        IN  /\ name # <<>>
            /\ InClass(name[1], SubSeq(pat, 2, j - 1))
            /\ Fnmatchcase(Tail(name), SubSeq(pat, j + 1, Len(pat)))
    ELSE name # <<>> /\ name[1] = pat[1] /\ Fnmatchcase(Tail(name), Tail(pat))

\* the inner loop of lines 426-429 without its break
RECURSIVE MatchOneNoBreak(_, _)
MatchOneNoBreak(name, pats) ==
    IF pats = <<>> THEN <<>>
    ELSE IF Fnmatchcase(name, Head(pats)) THEN <<name>> \o MatchOneNoBreak(name, Tail(pats))
    ELSE MatchOneNoBreak(name, Tail(pats))

\* lines 426-429: the name is appended at the first pattern that matches it
RECURSIVE MatchOne(_, _)
MatchOne(name, pats) ==
    IF pats = <<>> THEN <<>>
    ELSE IF Fnmatchcase(name, Head(pats)) THEN <<name>>
    ELSE MatchOne(name, Tail(pats))

\* match_layer_names(names, patterns), lines 424-430
RECURSIVE MatchLayerNames(_, _)
MatchLayerNames(names, patterns) ==
    IF names = <<>> THEN <<>>
    ELSE MatchOne(Head(names), Split(patterns)) \o MatchLayerNames(Tail(names), patterns)

(***************************************************************************)
(* Calls of match_layer_names.  The names are layer names; the patterns    *)
(* text joins pattern words, each listed with the layer names it is meant  *)
(* to match, by whitespace.                                                *)
(***************************************************************************)
MaxNames == 2
MaxPatterns == 2

LayerNames == { <<"C">>, <<"A">>, <<"c">>, <<"C","0">>, <<"C","1">> }

PatternWords ==
    { [text |-> <<"*">>, matches |-> LayerNames],
      [text |-> <<"?">>, matches |-> {<<"C">>, <<"A">>, <<"c">>}],
      [text |-> <<"C">>, matches |-> {<<"C">>}],
      [text |-> <<"C","*">>, matches |-> {<<"C">>, <<"C","0">>, <<"C","1">>}],
      [text |-> <<"C","?">>, matches |-> {<<"C","0">>, <<"C","1">>}],
      [text |-> <<"[","A","C","]">>, matches |-> {<<"C">>, <<"A">>}],
      [text |-> <<"[","!","C","]","*">>, matches |-> {<<"A">>, <<"c">>}],
      [text |-> <<"c","[">>, matches |-> {}] }

RECURSIVE SeqsUpTo(_, _)
SeqsUpTo(S, n) ==
    IF n = 0 THEN {<<>>}
    ELSE LET shorter == SeqsUpTo(S, n - 1)
         IN  shorter \cup {Append(q, x) : q \in shorter, x \in S}

\* the words joined by single spaces, or padded with other whitespace
RECURSIVE JoinWords(_, _)
JoinWords(words, sep) ==
    IF words = <<>> THEN <<>>
    ELSE IF Len(words) = 1 THEN words[1].text
    ELSE words[1].text \o sep \o JoinWords(Tail(words), sep)

PatternsText(words, style) ==
    IF style = "plain" THEN JoinWords(words, <<" ">>)
    ELSE <<" ">> \o JoinWords(words, <<"\t", " ">>) \o <<"\n">>

MatchRequests ==
    { [op |-> "match", names |-> names, words |-> words,
       patterns |-> PatternsText(words, style), out |-> Pending] :
        names \in SeqsUpTo(LayerNames, MaxNames),
        words \in SeqsUpTo(PatternWords, MaxPatterns),
        style \in {"plain", "padded"} }

MatchInit == call \in MatchRequests /\ heap = EmptyHeap

\* the call of match_layer_names is made
MatchCall ==
    /\ call.op = "match"
    /\ call.out = Pending
    /\ call' = [call EXCEPT !.out = Ok(MatchLayerNames(call.names, call.patterns))]
    /\ UNCHANGED heap

MatchNext == MatchCall

SpecMatch == MatchInit /\ [][MatchNext]_vars

IsMatchCall == call.op = "match" /\ call.out # Pending

IsMeant(name, words) == \E i \in DOMAIN words : name \in words[i].matches

NoDuplicates(q) == \A i, j \in DOMAIN q : q[i] = q[j] => i = j

\* C5: match_layer_names returns exactly the names that match at least one of the
\* whitespace-separated patterns, in the order of names, each occurrence once even
\* when several patterns match it; so "*" returns every layer name of an image
\* exactly once, and a patterns text without patterns returns nothing.
C5_MatchSelects ==
    IsMatchCall =>
        /\ call.out.value = SelectSeq(call.names, LAMBDA n : IsMeant(n, call.words))
        /\ (call.words = <<[text |-> <<"*">>, matches |-> LayerNames]>>
               /\ NoDuplicates(call.names))
             => call.out.value = call.names
        /\ call.words = <<>> => call.out.value = <<>>

\* a name that two patterns match, after a name that none matches
C5_Witness ==
    /\ IsMatchCall
    /\ call.names = << <<"c">>, <<"C","0">> >>
    /\ call.patterns = <<" ", "C","?", "\t", " ", "C","*", "\n">>
    /\ call.out.value = << <<"C","0">> >>

(***************************************************************************)
(* Layer/Image Model: imagecat/data.py.                                    *)
(*                                                                         *)
(* The heap holds the objects that exist, each kind in a sequence whose    *)
(* index is the object's identity: ndarrays [shape, px] (px maps a <<row,  *)
(* column>> to the sample there; the channels of a pixel carry one sample),*)
(* Layers [data, role] (data an ndarray's identity), dicts (a sequence of  *)
(* <<key, value>> entries in insertion order) and Images [layers,          *)
(* metadata] (each a dict's identity).  A Python value is a record with a  *)
(* kind: a reference to one of these objects, a Role, a string, a number,  *)
(* None, or a list for any other object.                                   *)
(***************************************************************************)
Roles ==
    {"NONE", "RGB", "REDGREEN", "GREENBLUE", "REDBLUE", "RED", "GREEN", "BLUE", "ALPHA",
     "MATTE", "LUMINANCE", "DEPTH", "RGBA", "UV", "XYZ", "VELOCITY", "NORMAL"}

Role(name) == [kind |-> "Role", name |-> name]
NdArray(ref) == [kind |-> "ndarray", ref |-> ref]
LayerRef(ref) == [kind |-> "Layer", ref |-> ref]
DictRef(ref) == [kind |-> "dict", ref |-> ref]
ImageRef(ref) == [kind |-> "Image", ref |-> ref]
List == [kind |-> "list"]

HOk(h, v) == [status |-> "ok", value |-> v, heap |-> h]
HRaise(h, e) == [status |-> e, value |-> None, heap |-> h]

\* depth(role), lines 370-389; None is [defined |-> FALSE]
Depth(role) ==
    IF role \in {"RGBA"} THEN [defined |-> TRUE, n |-> 4]
    ELSE IF role \in {"RGB", "XYZ", "VELOCITY", "NORMAL"} THEN [defined |-> TRUE, n |-> 3]
    ELSE IF role \in {"REDGREEN", "GREENBLUE", "REDBLUE", "UV"} THEN [defined |-> TRUE, n |-> 2]
    ELSE IF role \in {"RED", "GREEN", "BLUE", "ALPHA", "MATTE", "LUMINANCE", "DEPTH"}
      THEN [defined |-> TRUE, n |-> 1]
    ELSE [defined |-> FALSE, n |-> 0]

\* line 194 with the comparison dropped when the array has more channels than needed
DepthMismatchTooFew(roleDepth, channels) == roleDepth.defined /\ channels < roleDepth.n

\* line 194: role_depth is not None and data.shape[2] != role_depth
DepthMismatch(roleDepth, channels) == roleDepth.defined /\ channels # roleDepth.n

\* Layer.__init__(data, role), lines 182-198
LayerInit(h, data, role) ==
    IF data.kind # "ndarray" THEN HRaise(h, "ValueError")
    ELSE IF Len(h.arrays[data.ref].shape) # 3 THEN HRaise(h, "ValueError")
    ELSE LET r == IF role = None THEN Role("NONE") ELSE role
         IN  IF r.kind # "Role" THEN HRaise(h, "ValueError")
             ELSE IF DepthMismatch(Depth(r.name), h.arrays[data.ref].shape[3])
               THEN HRaise(h, "ValueError")
             ELSE HOk([h EXCEPT !.layers = Append(@, [data |-> data.ref, role |-> r.name])],
                      LayerRef(Len(h.layers) + 1))

\* Layer.copy(data, role), lines 205-227
LayerCopy(h, self, data, role) ==
    LayerInit(h,
              IF data = None THEN NdArray(h.layers[self.ref].data) ELSE data,
              IF role = None THEN Role(h.layers[self.ref].role) ELSE role)

\* layer.data.shape[:2]
Resolution(h, layer) == SubSeq(h.arrays[h.layers[layer.ref].data].shape, 1, 2)

\* line 76 comparing the whole shapes
ResolutionDiffersWholeShape(h, layer, first) ==
    h.arrays[h.layers[layer.ref].data].shape # h.arrays[h.layers[first.ref].data].shape

\* line 76: layer.data.shape[:2] != first_layer.data.shape[:2]
ResolutionDiffers(h, layer, first) == Resolution(h, layer) # Resolution(h, first)

\* the loop of lines 67-77 from entry i on: TRUE when some entry raises ValueError
RECURSIVE ImageCheckFails(_, _, _, _)
ImageCheckFails(h, entries, i, first) ==
    IF i > Len(entries) THEN FALSE
    ELSE IF entries[i][1].kind # "str" THEN TRUE
    ELSE IF entries[i][2].kind # "Layer" THEN TRUE
    ELSE IF first = None THEN ImageCheckFails(h, entries, i + 1, entries[i][2])
    ELSE IF ResolutionDiffers(h, entries[i][2], first) THEN TRUE
    ELSE ImageCheckFails(h, entries, i + 1, first)

\* Image.__init__(layers, metadata), lines 61-80: None becomes a new empty dict, a
\* dict that is passed becomes the image's own
ImageInit(h, layers, metadata) ==
    LET Checked(h2, l, m) ==
            IF ImageCheckFails(h2, h2.dicts[l.ref], 1, None) THEN HRaise(h, "ValueError")
            ELSE HOk([h2 EXCEPT !.images = Append(@, [layers |-> l.ref, metadata |-> m.ref])],
                     ImageRef(Len(h2.images) + 1))
        WithLayers(h1, l) ==
            IF metadata = None
            THEN Checked([h1 EXCEPT !.dicts = Append(@, <<>>)], l, DictRef(Len(h1.dicts) + 1))
            ELSE Checked(h1, l, metadata)
    IN  IF layers = None
        THEN WithLayers([h EXCEPT !.dicts = Append(@, <<>>)], DictRef(Len(h.dicts) + 1))
        ELSE WithLayers(h, layers)

(***************************************************************************)
(* Constructions of Layers and Images.  Each run starts from a heap of     *)
(* arrays and of Layers built by Layer.__init__, and makes one call.       *)
(***************************************************************************)
MaxChannels == 4
MaxImageLayers == 3

Resolutions == {<<1, 1>>, <<1, 2>>, <<2, 1>>}

Cells(rows, cols) == (0..(rows - 1)) \X (0..(cols - 1))

\* numpy.zeros(shape)
Zeros(shape) == [shape |-> shape, px |-> [rc \in Cells(shape[1], shape[2]) |-> Int2Rat(0)]]

\* arrays of two, three and four dimensions
DataShapes ==
    UNION { {res, res \o <<ch>>, res \o <<ch, 1>>} : res \in Resolutions, ch \in 1..MaxChannels }

RoleArgs == {Role(r) : r \in Roles} \cup {None, Str(<<"R", "G", "B">>)}

HeapOfArrays(arrays) == [EmptyHeap EXCEPT !.arrays = arrays]

\* a call about to be made on heap h
Scenario(h, op, args) == <<h, [op |-> op, args |-> args, before |-> h, out |-> Pending]>>

\* Layer(data=..., role=...)
LayerScenarios ==
    { Scenario(HeapOfArrays(<<Zeros(shape)>>), "Layer", [data |-> NdArray(1), role |-> role]) :
        shape \in DataShapes, role \in RoleArgs }
    \cup { Scenario(EmptyHeap, "Layer", [data |-> List, role |-> role]) : role \in RoleArgs }

\* a Layer of one pixel, and a second array to replace its data with
CopyHeaps ==
    { made.heap :
        made \in { m \in { LayerInit(HeapOfArrays(<<Zeros(<<1, 1, ch>>), Zeros(shape)>>),
                                     NdArray(1), Role(r)) :
                               ch \in 1..MaxChannels, r \in Roles,
                               shape \in {s \in DataShapes : SubSeq(s, 1, 2) = <<1, 1>>} } :
                      m.status = "ok" } }

\* layer.copy(data=..., role=...)
CopyScenarios ==
    { Scenario(h, "Layer.copy", [self |-> LayerRef(1), data |-> data, role |-> role]) :
        h \in CopyHeaps, data \in {None, List, NdArray(2)}, role \in RoleArgs }

\* the heap holding one Layer of role NONE for each shape of the sequence
RECURSIVE HeapOfLayers(_)
HeapOfLayers(shapes) ==
    IF shapes = <<>> THEN EmptyHeap
    ELSE LET h == HeapOfLayers(SubSeq(shapes, 1, Len(shapes) - 1))
             withArray == [h EXCEPT !.arrays = Append(@, Zeros(shapes[Len(shapes)]))]
         IN  LayerInit(withArray, NdArray(Len(withArray.arrays)), None).heap

ImageLayerShapes == { res \o <<ch>> : res \in Resolutions, ch \in {1, 3} }

LayerKey(i) == Str(<<"L", Digits[i + 1]>>)

\* the dict {"L1": layer 1, "L2": layer 2, ...}, with the key or the value of entry
\* bad (0: none) replaced by an object of another type
LayersDict(n, flaw, bad) ==
    [i \in 1..n |->
        << IF flaw = "key" /\ i = bad THEN Number(Int2Rat(i)) ELSE LayerKey(i),
           IF flaw = "value" /\ i = bad THEN List ELSE LayerRef(i) >>]

\* Image(layers=..., metadata=...)
ImageScenarios ==
    { Scenario([HeapOfLayers(shapes) EXCEPT !.dicts = <<LayersDict(Len(shapes), flaw, bad), <<>> >>],
               "Image", [layers |-> DictRef(1), metadata |-> metadata]) :
        shapes \in SeqsUpTo(ImageLayerShapes, MaxImageLayers),
        flaw \in {"none", "key", "value"}, bad \in 1..MaxImageLayers,
        metadata \in {None, DictRef(2)} }
    \cup { Scenario(EmptyHeap, "Image", [layers |-> None, metadata |-> None]) }

DataInit ==
    \E sc \in LayerScenarios \cup CopyScenarios \cup ImageScenarios :
        heap = sc[1] /\ call = sc[2]

\* the call returns or raises: out is its outcome, heap the objects that now exist
Finish(result) ==
    /\ call' = [call EXCEPT !.out = [status |-> result.status, value |-> result.value]]
    /\ heap' = result.heap

Called(op) == call.op = op /\ call.out = Pending
Done(op) == call.op = op /\ call.out # Pending

\* Layer(data=..., role=...)
NewLayer ==
    /\ Called("Layer")
    /\ Finish(LayerInit(heap, call.args.data, call.args.role))

\* layer.copy(data=..., role=...)
CopyLayer ==
    /\ Called("Layer.copy")
    /\ Finish(LayerCopy(heap, call.args.self, call.args.data, call.args.role))

\* Image(layers=..., metadata=...)
NewImage ==
    /\ Called("Image")
    /\ Finish(ImageInit(heap, call.args.layers, call.args.metadata))

DataNext == NewLayer \/ CopyLayer \/ NewImage

SpecData == DataInit /\ [][DataNext]_vars

\* data.ndim == 3 for an ndarray
IsArray3(h, data) == data.kind = "ndarray" /\ Len(h.arrays[data.ref].shape) = 3

\* the role/depth invariant of a (data, role) pair
RoleFits(h, data, role) ==
    ~Depth(role).defined \/ h.arrays[data.ref].shape[3] = Depth(role).n

IsRoleArg(role) == role = None \/ role.kind = "Role"
RoleOf(role) == IF role = None THEN "NONE" ELSE role.name

\* the call made a Layer of (data, role), the only new object
MadeLayer(data, role) ==
    /\ call.out.status = "ok"
    /\ heap.layers = Append(call.before.layers, [data |-> data.ref, role |-> role])
    /\ call.out.value = LayerRef(Len(heap.layers))

\* the call raised ValueError and made no Layer
MadeNoLayer == call.out.status = "ValueError" /\ heap.layers = call.before.layers

\* C1: every Layer that exists has a 3-dimensional array whose channel count is its
\* role's depth when that depth is defined; Layer(data, role) succeeds exactly when
\* data is such an array for the role (NONE when omitted) and otherwise raises
\* ValueError and makes no Layer; Layer.copy checks the resulting (data, role) pair
\* the same way.
C1_LayerInvariant ==
    /\ \A i \in DOMAIN heap.layers :
          /\ Len(heap.arrays[heap.layers[i].data].shape) = 3
          /\ RoleFits(heap, NdArray(heap.layers[i].data), heap.layers[i].role)
    /\ (Done("Layer") /\ IsRoleArg(call.args.role)) =>
          LET data == call.args.data
              role == RoleOf(call.args.role)
          IN  IF IsArray3(heap, data) /\ RoleFits(heap, data, role)
              THEN MadeLayer(data, role) ELSE MadeNoLayer
    /\ (Done("Layer.copy") /\ IsRoleArg(call.args.role)) =>
          LET self == heap.layers[call.args.self.ref]
              data == IF call.args.data = None THEN NdArray(self.data) ELSE call.args.data
              role == IF call.args.role = None THEN self.role ELSE call.args.role.name
          IN  IF IsArray3(heap, data) /\ RoleFits(heap, data, role)
              THEN MadeLayer(data, role) ELSE MadeNoLayer

\* copy(role=RGB) of a one-channel Layer has failed
C1_Witness ==
    /\ Done("Layer.copy")
    /\ call.args.data = None /\ call.args.role = Role("RGB")
    /\ heap.arrays[heap.layers[1].data].shape = <<1, 1, 1>>
    /\ MadeNoLayer

EntriesOf(h, layers) == IF layers = None THEN <<>> ELSE h.dicts[layers.ref]

\* C2: Image(layers, metadata) succeeds exactly when every key is a string, every
\* value a Layer and all layers have the same (rows, columns); otherwise it raises
\* ValueError and makes no Image.  Zero or one layer is always accepted.
C2_ImageInvariant ==
    Done("Image") =>
        LET entries == EntriesOf(call.before, call.args.layers)
            wellTyped == \A i \in DOMAIN entries :
                            entries[i][1].kind = "str" /\ entries[i][2].kind = "Layer"
            sameResolution == \A i, j \in DOMAIN entries :
                                 Resolution(heap, entries[i][2]) = Resolution(heap, entries[j][2])
        IN  /\ IF wellTyped /\ sameResolution
               THEN call.out.status = "ok" /\ Len(heap.images) = Len(call.before.images) + 1
               ELSE call.out.status = "ValueError" /\ heap.images = call.before.images
            /\ (wellTyped /\ Len(entries) <= 1) => call.out.status = "ok"

\* three layers of which only the last has another resolution: no Image
C2_Witness ==
    /\ Done("Image")
    /\ Len(EntriesOf(call.before, call.args.layers)) = 3
    /\ \A i \in 1..3 : heap.arrays[i].shape = (IF i = 3 THEN <<2, 1, 1>> ELSE <<1, 2, 3>>)
    /\ call.out.status = "ValueError" /\ heap.images = <<>>

(***************************************************************************)
(* Affine Compositor: transform, imagecat/operator/util.py lines 285-365.  *)
(*                                                                         *)
(* A homogeneous matrix with last row (0, 0, 1) is <<a, b, c, d, e, f>>:   *)
(* x' = a x + b y + c, y' = d x + e y + f, x the column and y the row.     *)
(* Orientations are whole quarter turns and scales are powers of two, so   *)
(* that every matrix has an exact rational value.  For orientation 0 the   *)
(* floating point computation is exact.  For any other orientation         *)
(* cos(radians(.)) and sin(radians(.)) are off by about 1e-16 where they   *)
(* should be 0, so a corner coordinate whose exact value is an integer may *)
(* be computed just below or just above it: floor may then give one less   *)
(* and ceil one more.  slack = <<minx, miny, maxx, maxy>> says by how much *)
(* each bound moved outward (0 or 1) and is chosen nondeterministically.   *)
(* A sample is the source's sample when the computation is exact and the   *)
(* sampled position is a pixel of the source, 0 (cval) when it is a whole  *)
(* position outside the source, and otherwise the uninterpreted            *)
(* <<"warp", shape of the source, position>>.                              *)
(***************************************************************************)
Zero == Int2Rat(0)
One == Int2Rat(1)

RInv(p) == Rat(p[2], p[1])

\* numpy.identity(3)
Identity == <<One, Zero, Zero, Zero, One, Zero>>

\* AffineTransform(translation=(tx, ty))
Translation(tx, ty) == <<One, Zero, tx, Zero, One, ty>>

\* AffineTransform(scale=(sx, sy))
Scaling(sx, sy) == <<sx, Zero, Zero, Zero, sy, Zero>>

QuarterTurns(degrees) == (degrees \div 90) % 4
Cos(degrees) == Int2Rat(<<1, 0, -1, 0>>[QuarterTurns(degrees) + 1])
Sin(degrees) == Int2Rat(<<0, 1, 0, -1>>[QuarterTurns(degrees) + 1])

\* AffineTransform(rotation=numpy.radians(degrees))
Rotation(degrees) ==
    <<Cos(degrees), RNeg(Sin(degrees)), Zero, Sin(degrees), Cos(degrees), Zero>>

\* the tuple of a function on 1..n
AsTuple(f) == f \o <<>>

\* entry i of numpy.dot(m.params, n.params): row r, column c of the product of two
\* matrices whose last row is 0 0 1
DotEntry(m, n, r, c) ==
    RAdd(RAdd(RMul(m[3 * r + 1], n[c + 1]), RMul(m[3 * r + 2], n[c + 4])),
         IF c = 2 THEN m[3 * r + 3] ELSE Zero)

\* numpy.dot(m.params, n.params): the product has an entry for each entry of n
Dot(m, n) == AsTuple([i \in DOMAIN n |-> DotEntry(m, n, (i - 1) \div 3, (i - 1) % 3)])

\* matrix(coords) for one <<x, y>>: a coordinate for each row of m
MapPoint(m, p) ==
    AsTuple([i \in 1..(Len(m) \div 3) |->
                RAdd(RAdd(RMul(m[3 * i - 2], p[1]), RMul(m[3 * i - 1], p[2])), m[3 * i])])

Determinant(m) == RSub(RMul(m[1], m[5]), RMul(m[2], m[4]))

\* the inverse's linear part <<a, b, d, e>>, k being 1 / determinant
InverseLinear(m, k) ==
    AsTuple([i \in 1..4 |-> IF i \in {2, 3} THEN RNeg(RMul(k, m[<<5, 2, 4, 1>>[i]]))
                            ELSE RMul(k, m[<<5, 2, 4, 1>>[i]])])

\* the inverse with its translation
InverseAffine(l, m) ==
    AsTuple([i \in 1..6 |->
                IF i % 3 = 0
                THEN RNeg(RAdd(RMul(l[2 * (i \div 3) - 1], m[3]), RMul(l[2 * (i \div 3)], m[6])))
                ELSE l[i - (i \div 3)]])

\* matrix.inverse, for a matrix that has one
Inverse(m) == InverseAffine(InverseLinear(m, RInv(Determinant(m))), m)

\* line 338 without the minus sign
TurnedClockwise(orientation) == Rotation(orientation)

\* line 338: AffineTransform(rotation=numpy.radians(-orientation))
Turned(orientation) == Rotation(-orientation)

\* lines 334-339 the other way round: the rotation, then the scale
RotatedScaled(matrix, orientation, scale) ==
    Dot(Scaling(scale[1], scale[2]), Dot(Turned(orientation), matrix))

\* lines 334-339: the scale, then the rotation
ScaledRotated(matrix, orientation, scale) ==
    Dot(Turned(orientation), Dot(Scaling(scale[1], scale[2]), matrix))

\* lines 321-344: the source's origin moved to its lower left corner, then the pivot,
\* the scale, the rotation, and the target's origin moved to its lower left corner
PlacedMatrix(sourcey, targety, pivotx, pivoty, orientation, scale) ==
    Dot(Translation(Zero, Int2Rat(targety)),
        ScaledRotated(Dot(Translation(RNeg(pivotx), pivoty),
                          Dot(Translation(Zero, Int2Rat(-sourcey)), Identity)),
                      orientation, scale))

\* TransformMatrix with the position's y growing downward like the rows
TransformMatrixYDown(sourcey, targety, pivotx, pivoty, positionx, positiony, orientation, scale) ==
    Dot(Translation(positionx, positiony),
        PlacedMatrix(sourcey, targety, pivotx, pivoty, orientation, scale))

\* lines 319-349: the matrix that takes source coordinates to target coordinates
TransformMatrix(sourcey, targety, pivotx, pivoty, positionx, positiony, orientation, scale) ==
    Dot(Translation(positionx, RNeg(positiony)),
        PlacedMatrix(sourcey, targety, pivotx, pivoty, orientation, scale))

IsExact(orientation) == orientation = 0

NoSlack == <<0, 0, 0, 0>>

\* the outcomes of the roundings of lines 356-357
Slacks(orientation) ==
    IF IsExact(orientation) THEN {NoSlack} ELSE {0, 1} \X {0, 1} \X {0, 1} \X {0, 1}

\* numpy.floor / numpy.ceil of a coordinate computed with the given slack
Floor(q, slack) == IF RIsInt(q) THEN RFloor(q) - slack ELSE RFloor(q)
Ceil(q, slack) == IF RIsInt(q) THEN RCeil(q) + slack ELSE RCeil(q)

RMin4(q) == RMin(RMin(q[1], q[2]), RMin(q[3], q[4]))
RMax4(q) == RMax(RMax(q[1], q[2]), RMax(q[3], q[4]))

\* line 356: minx, miny = max(floor(min(coords)), [0, 0])
LowerBounds(mins, slack, targetx, targety) ==
    << Max2(Floor(mins[1], slack[1]), 0), Max2(Floor(mins[2], slack[2]), 0) >>

\* line 357: maxx, maxy = min(ceil(max(coords)), [targetx, targety])
UpperBounds(maxs, slack, targetx, targety) ==
    << Min2(Ceil(maxs[1], slack[3]), targetx), Min2(Ceil(maxs[2], slack[4]), targety) >>

\* the value warp gives the output pixel that samples the source at position p
Sample(source, p, exact) ==
    IF exact /\ RIsInt(p[1]) /\ RIsInt(p[2])
    THEN IF <<p[2][1], p[1][1]>> \in DOMAIN source.px THEN source.px[<<p[2][1], p[1][1]>>]
         ELSE Zero
    ELSE <<"warp", source.shape, p>>

\* skimage.transform.warp(source, inverse, output_shape=(rows, cols, ...), order,
\* mode="constant", cval=0): numpy refuses a negative dimension with ValueError,
\* the channels are those of the source
Warp(source, inverse, rows, cols, exact) ==
    IF rows < 0 \/ cols < 0 THEN Raise("ValueError")
    ELSE Ok([shape |-> <<rows, cols, source.shape[3]>>,
             px |-> [rc \in Cells(rows, cols) |->
                        Sample(source, MapPoint(inverse, <<Int2Rat(rc[2]), Int2Rat(rc[1])>>), exact)]])

TransformResult(status, region, data) == [status |-> status, region |-> region, data |-> data]

\* line 354-355: the corners of the source, mapped
Corners(matrix, sourcex, sourcey) ==
    AsTuple([i \in 1..4 |->
                MapPoint(matrix, << <<Zero, Zero>>, <<Int2Rat(sourcex), Zero>>,
                                    <<Int2Rat(sourcex), Int2Rat(sourcey)>>,
                                    <<Zero, Int2Rat(sourcey)>> >>[i])])

\* numpy.min(coords, axis=0), numpy.max(coords, axis=0)
Mins(coords) == <<RMin4([i \in 1..4 |-> coords[i][1]]), RMin4([i \in 1..4 |-> coords[i][2]])>>
Maxs(coords) == <<RMax4([i \in 1..4 |-> coords[i][1]]), RMax4([i \in 1..4 |-> coords[i][2]])>>

\* line 365: what transform returns, region being <<miny, maxy, minx, maxx>>
TransformWarped(region, warped) == TransformResult(warped.status, region, warped.value)

\* lines 360-365, lower = <<minx, miny>>, upper = <<maxx, maxy>>
TransformRendered(source, matrix, lower, upper, exact) ==
    TransformWarped(<<lower[2], upper[2], lower[1], upper[1]>>,
                    Warp(source,
                         Inverse(Dot(Translation(Int2Rat(-lower[1]), Int2Rat(-lower[2])), matrix)),
                         upper[2] - lower[2], upper[1] - lower[1], exact))

\* lines 356-357
TransformBounded(source, target_shape, matrix, coords, exact, slack) ==
    TransformRendered(source, matrix,
                      LowerBounds(Mins(coords), slack, target_shape[2], target_shape[1]),
                      UpperBounds(Maxs(coords), slack, target_shape[2], target_shape[1]),
                      exact)

\* lines 354-355
TransformMapped(source, target_shape, matrix, exact, slack) ==
    TransformBounded(source, target_shape, matrix,
                     Corners(matrix, source.shape[2], source.shape[1]), exact, slack)

\* lines 319-365 for resolved pivot and position
TransformRegion(source, target_shape, pivotx, pivoty, positionx, positiony, orientation, scale, slack) ==
    TransformMapped(source, target_shape,
                    TransformMatrix(source.shape[1], target_shape[1], pivotx, pivoty,
                                    positionx, positiony, orientation, scale),
                    IsExact(orientation), slack)

\* lines 315-318 done: the first length that raised ends the call
TransformResolved(source, target_shape, lengths, orientation, scale, slack) ==
    IF \E i \in 1..4 : lengths[i].status # "ok"
    THEN TransformResult(lengths[CHOOSE i \in 1..4 :
                                    /\ lengths[i].status # "ok"
                                    /\ \A j \in 1..(i - 1) : lengths[j].status = "ok"].status,
                         <<>>, <<>>)
    ELSE TransformRegion(source, target_shape, lengths[1].value, lengths[2].value,
                         lengths[3].value, lengths[4].value, orientation, scale, slack)

\* transform(source, target_shape, pivot=, position=, orientation=, scale=, order=),
\* lines 285-365: pivotx, pivoty are lengths of the source's size and positionx,
\* positiony lengths of the target's size
Transform(source, target_shape, pivot, position, orientation, scale, order, slack) ==
    TransformResolved(
        source, target_shape,
        AsTuple([i \in 1..4 |->
                    Length((pivot.items \o position.items)[i],
                           IF i <= 2 THEN <<source.shape[2], source.shape[1]>>
                           ELSE <<target_shape[2], target_shape[1]>>)]),
        orientation, scale, slack)

(***************************************************************************)
(* Operator inputs and the copies the operators work on:                   *)
(* imagecat/operator/util.py lines 107-281.  inputs is a record of Python  *)
(* values; an input that was not given is None.                            *)
(***************************************************************************)
\* inputs.get(name, default=default)
OptionalInput(inputs, name, default) ==
    IF inputs[name] = None THEN default ELSE inputs[name]

\* key in d, d[key] for the entries of a dict
DictHas(entries, key) == \E i \in DOMAIN entries : entries[i][1] = key
DictGet(entries, key) == entries[CHOOSE i \in DOMAIN entries : entries[i][1] = key][2]

\* d[key] = value: replaces the value of an existing key, else appends the entry
DictSet(entries, key, value) ==
    IF DictHas(entries, key)
    THEN [i \in DOMAIN entries |-> IF entries[i][1] = key THEN <<key, value>> ELSE entries[i]]
    ELSE Append(entries, <<key, value>>)

\* the dict itself in place of dict(d)
DictShared(h, d) == HOk(h, d)

\* dict(d): a new dict with the entries of d
DictCopy(h, d) ==
    HOk([h EXCEPT !.dicts = Append(@, h.dicts[d.ref])], DictRef(Len(h.dicts) + 1))

\* Image.copy(layers, metadata), data.py lines 88-109
ImageCopy(h, self, layers, metadata) ==
    LET Copied(l, m) == ImageInit(m.heap, l.value, m.value)
        WithLayers(l) ==
            Copied(l, IF metadata = None
                      THEN DictCopy(l.heap, DictRef(h.images[self.ref].metadata))
                      ELSE HOk(l.heap, metadata))
    IN  WithLayers(IF layers = None THEN DictCopy(h, DictRef(h.images[self.ref].layers))
                   ELSE HOk(h, layers))

LayersOf(h, image) == h.dicts[h.images[image.ref].layers]
MetadataOf(h, image) == h.dicts[h.images[image.ref].metadata]
DataOf(h, layer) == h.arrays[h.layers[layer.ref].data]

\* require_image, lines 175-201
RequireImage(h, image) ==
    IF image = None THEN HRaise(h, "KeyError")
    ELSE IF image.kind # "Image" THEN HRaise(h, "ValueError")
    ELSE ImageCopy(h, image, None, None)

\* optional_image, lines 68-96
OptionalImage(h, image) ==
    IF image = None THEN HOk(h, None)
    ELSE IF image.kind # "Image" THEN HRaise(h, "ValueError")
    ELSE ImageCopy(h, image, None, None)

\* lines 272-273 / 163-164: the layer that is meant
LayerMeant(entries, layer) ==
    IF layer = None /\ Len(entries) = 1 THEN entries[1][1] ELSE layer

\* require_layer(name, inputs, input, layer=, depth=), lines 237-281; the value is
\* <<layer name, copy of the layer>>
RequireLayer(h, input, layer, depth) ==
    LET Copied(name, copy) == HOk(copy.heap, <<name, copy.value>>)
        Found(h1, entries, name) ==
            IF ~DictHas(entries, name) THEN HRaise(h1, "RuntimeError")
            ELSE IF depth # None
                    /\ Int2Rat(DataOf(h1, DictGet(entries, name)).shape[3]) # depth.v
              THEN HRaise(h1, "RuntimeError")
            ELSE Copied(name, LayerCopy(h1, DictGet(entries, name), None, None))
        Entries(h1, entries) == Found(h1, entries, LayerMeant(entries, layer))
        Required(image) ==
            IF image.status # "ok" THEN image
            ELSE Entries(image.heap, LayersOf(image.heap, image.value))
    IN  Required(RequireImage(h, input))

\* optional_layer(name, inputs, input, layer=, depth=), lines 131-172
OptionalLayer(h, input, layer, depth) ==
    LET Copied(name, copy) == HOk(copy.heap, <<name, copy.value>>)
        Found(h1, entries, name) ==
            IF ~DictHas(entries, name) THEN HOk(h1, <<None, None>>)
            ELSE IF depth # None
                    /\ Int2Rat(DataOf(h1, DictGet(entries, name)).shape[3]) # depth.v
              THEN HOk(h1, <<None, None>>)
            ELSE Copied(name, LayerCopy(h1, DictGet(entries, name), None, None))
        Entries(h1, entries) == Found(h1, entries, LayerMeant(entries, layer))
        Optional(image) ==
            IF image.status # "ok" THEN image
            ELSE IF image.value = None THEN HOk(image.heap, <<None, None>>)
            ELSE Entries(image.heap, LayersOf(image.heap, image.value))
    IN  Optional(OptionalImage(h, input))

\* a new ndarray
NewArray(h, array) == HOk([h EXCEPT !.arrays = Append(@, array)], NdArray(Len(h.arrays) + 1))

(***************************************************************************)
(* composite: imagecat/operator/transform.py lines 29-103.                 *)
(***************************************************************************)
\* numpy.ones(shape)
Ones(shape) == [shape |-> shape, px |-> [rc \in Cells(shape[1], shape[2]) |-> One]]

IsNumber(sample) == Len(sample) = 2

\* foreground * alpha + background * (1 - alpha) without the factor (1 - alpha)
BlendAdds(foreground, alpha, background) ==
    IF IsNumber(foreground) /\ IsNumber(alpha) /\ IsNumber(background)
    THEN RAdd(RMul(foreground, alpha), background)
    ELSE <<"blend", foreground, alpha, background>>

\* line 99 for one sample: foreground * alpha + background * (1 - alpha)
Blend(foreground, alpha, background) ==
    IF IsNumber(foreground) /\ IsNumber(alpha) /\ IsNumber(background)
    THEN RAdd(RMul(foreground, alpha), RMul(background, RSub(One, alpha)))
    ELSE <<"blend", foreground, alpha, background>>

\* numpy broadcasting of two extents: -1 when they cannot be broadcast together
BroadcastDim(a, b) == IF a = b THEN a ELSE IF a = 1 THEN b ELSE IF b = 1 THEN a ELSE -1

BroadcastShape(s, t) == [i \in 1..3 |-> IF s[i] = -1 \/ t[i] = -1 THEN -1 ELSE BroadcastDim(s[i], t[i])]

\* the index into an extent that is broadcast
BroadcastIndex(i, extent) == IF extent = 1 THEN 0 ELSE i

BroadcastAt(array, r, c) ==
    array.px[<<BroadcastIndex(r, array.shape[1]), BroadcastIndex(c, array.shape[2])>>]

\* line 99: data[i1:i2, j1:j2] = foreground * alpha + data[i1:i2, j1:j2] * (1 - alpha)
\* on data, a copy of the background; ValueError when the shapes cannot be broadcast
Paste(data, region, foreground, alpha) ==
    LET i1 == region[1]
        i2 == region[2]
        j1 == region[3]
        j2 == region[4]
        slice == <<i2 - i1, j2 - j1, data.shape[3]>>
        product == BroadcastShape(foreground.shape, alpha.shape)
        rest == BroadcastShape(slice, alpha.shape)
        sum == BroadcastShape(product, rest)
    IN  IF sum # slice THEN Raise("ValueError")
        ELSE Ok([data EXCEPT !.px =
                    [rc \in DOMAIN data.px |->
                        IF i1 <= rc[1] /\ rc[1] < i2 /\ j1 <= rc[2] /\ rc[2] < j2
                        THEN Blend(BroadcastAt(foreground, rc[1] - i1, rc[2] - j1),
                                   BroadcastAt(alpha, rc[1] - i1, rc[2] - j1),
                                   data.px[rc])
                        ELSE data.px[rc]]])

DefaultOrder == 3
DefaultPlace == Tuple(<<Str(<<"0", ".", "5", "w">>), Str(<<"0", ".", "5", "h">>)>>)
DefaultScale == Tuple(<<Number(One), Number(One)>>)

\* what composite leaves besides its result: the region and the arrays the two
\* calls of transform returned
NoLocals == [region |-> <<>>, foreground |-> <<>>, alpha |-> <<>>]

Returned(result, locals) ==
    [status |-> result.status, value |-> result.value, heap |-> result.heap, locals |-> locals]

\* line 101: Image(layers={layer: ...}), dicts being the heap with that dict
CompositeMade(dicts, locals) ==
    Returned(ImageInit(dicts, DictRef(Len(dicts.dicts)), None), locals)

\* line 101: the dict of the new layer
CompositeLayered(made, layer, locals) ==
    CompositeMade([made.heap EXCEPT !.dicts = Append(@, << <<layer, made.value>> >>)], locals)

\* lines 99-101: data is the copy of line 98, pasted what line 99 stores in it
CompositePasted(data, pasted, role, layer, locals) ==
    IF pasted.status # "ok" THEN Returned(HRaise(data.heap, pasted.status), locals)
    ELSE CompositeLayered(LayerInit([data.heap EXCEPT !.arrays[data.value.ref] = pasted.value],
                                    data.value, role),
                          layer, locals)

\* line 98 without the copy: data = background.data
DataShared(h, layer) == HOk(h, NdArray(h.layers[layer.ref].data))

\* line 98: data = background.data.copy()
DataCopy(h, layer) == NewArray(h, DataOf(h, layer))

\* lines 96-101, with the arrays that transform returned
CompositeBlend(h, background, layer, tf, tm) ==
    CompositePasted(DataCopy(h, background),
                    Paste(DataOf(h, background), tm.region, tf.data, tm.data),
                    Role(h.layers[background.ref].role), layer,
                    [region |-> tm.region, foreground |-> tf.data, alpha |-> tm.data])

\* lines 94-95 done: an exception of either call of transform ends composite
CompositeTransformed(h, background, layer, tf, tm) ==
    IF tf.status # "ok" THEN Returned(HRaise(h, tf.status), NoLocals)
    ELSE IF tm.status # "ok"
      THEN Returned(HRaise(NewArray(h, tf.data).heap, tm.status), NoLocals)
    ELSE CompositeBlend(NewArray(NewArray(h, tf.data).heap, tm.data).heap,
                        background, layer, tf, tm)

\* lines 94-95: the two calls of transform; slack holds their roundings, which are the
\* same when both compute the same matrix
CompositeMasked(h, background, fg, maskData, layer, pivot, position, orientation, scale, order, slack) ==
    CompositeTransformed(
        h, background, layer,
        Transform(fg, DataOf(h, background).shape, pivot, position, orientation, scale,
                  order, slack[1]),
        Transform(maskData, DataOf(h, background).shape, pivot, position, orientation, scale,
                  order,
                  IF SubSeq(maskData.shape, 1, 2) = SubSeq(fg.shape, 1, 2)
                  THEN slack[1] ELSE slack[2]))

\* the shape of numpy.ones((foreground.shape[0], foreground.shape[1], 1)), line 90
OnesShape(fg) == <<fg.shape[1], fg.shape[2], 1>>

\* lines 89-101, with the layers and parameters in hand
CompositeLayers(h, background, foreground, mask, layer, pivot, position, orientation, scale, order, slack) ==
    CompositeMasked(
        IF mask = None THEN NewArray(h, Ones(OnesShape(DataOf(h, foreground)))).heap ELSE h,
        background, DataOf(h, foreground),
        IF mask = None THEN Ones(OnesShape(DataOf(h, foreground))) ELSE DataOf(h, mask),
        layer, pivot, position, orientation, scale, order, slack)

\* lines 79-88: the inputs besides the layers, with their defaults
CompositeMask(background, foreground, mask, inputs, slack) ==
    IF mask.status # "ok" THEN Returned(mask, NoLocals)
    ELSE CompositeLayers(
             mask.heap, background.value[2], foreground.value[2], mask.value[2],
             OptionalInput(inputs, "layer", background.value[1]),
             OptionalInput(inputs, "pivot", DefaultPlace),
             OptionalInput(inputs, "position", DefaultPlace),
             OptionalInput(inputs, "orientation", Number(Zero)).v[1],
             AsTuple([i \in 1..2 |-> OptionalInput(inputs, "scale", DefaultScale).items[i].v]),
             OptionalInput(inputs, "order", Number(Int2Rat(DefaultOrder))).v[1],
             slack)

\* line 78: mask_name, mask = optional_layer(name, inputs, "mask", depth=1)
CompositeForeground(background, foreground, inputs, slack) ==
    IF foreground.status # "ok" THEN Returned(foreground, NoLocals)
    ELSE CompositeMask(background, foreground,
                       OptionalLayer(foreground.heap, inputs.mask, inputs.masklayer, Number(One)),
                       inputs, slack)

\* line 77: foreground_name, foreground = require_layer(name, inputs, "foreground")
CompositeBackground(background, inputs, slack) ==
    IF background.status # "ok" THEN Returned(background, NoLocals)
    ELSE CompositeForeground(background,
                             RequireLayer(background.heap, inputs.foreground, inputs.fglayer, None),
                             inputs, slack)

\* composite(graph, name, inputs), lines 76-103
Composite(h, inputs, slack) ==
    CompositeBackground(RequireLayer(h, inputs.background, inputs.bglayer, None), inputs, slack)

(***************************************************************************)
(* Calls of transform and of composite.  Arrays are ramps (every sample    *)
(* differs from the others) or filled with one value; their samples are    *)
(* small dyadic numbers, which half-precision arithmetic keeps exact.      *)
(***************************************************************************)
MaxOffset == 2

Offsets == (-MaxOffset)..(MaxOffset + 1)

Place(x, y) == Tuple(<<Number(Int2Rat(x)), Number(Int2Rat(y))>>)

Ramp(shape, base) ==
    [shape |-> shape,
     px |-> [rc \in Cells(shape[1], shape[2]) |-> Int2Rat(base + rc[1] * shape[2] + rc[2] + 1)]]

Fill(shape, sample) == [shape |-> shape, px |-> [rc \in Cells(shape[1], shape[2]) |-> sample]]

Half == Rat(1, 2)

TargetShapes == {<<2, 2, 1>>, <<3, 2, 3>>}

PivotArgs == {Place(0, 0), Place(1, 0), Place(1, 1), DefaultPlace}

BogusPlace == Tuple(<<Str(<<"b", "o", "g", "u", "s">>), Number(Zero)>>)

PositionArgs == {Place(x, y) : x, y \in Offsets} \cup {DefaultPlace, BogusPlace}

Orientations == {0, 90, 180}

Scales == {<<One, One>>, <<Int2Rat(2), One>>, <<Int2Rat(-1), One>>}

TransformArgs(source, target_shape, pivot, position, orientation, scale) ==
    [source |-> source, target_shape |-> target_shape, pivot |-> pivot,
     position |-> position, orientation |-> orientation, scale |-> scale,
     order |-> DefaultOrder]

\* the foreground of 10x10 centred on a canvas of 100x100
CentredTransform ==
    TransformArgs(Ramp(<<10, 10, 1>>, 0), <<100, 100, 1>>, DefaultPlace, DefaultPlace,
                  0, <<One, One>>)

\* translations and scalings, for which the computation is exact
ExactTransforms ==
    { TransformArgs(Ramp(res \o <<1>>, 0), target, pivot, position, 0, scale) :
        res \in Resolutions, target \in TargetShapes, pivot \in PivotArgs,
        position \in PositionArgs, scale \in Scales }

\* rotations by quarter turns
RotatedTransforms ==
    { TransformArgs(Ramp(res \o <<1>>, 0), target, pivot, position, orientation, scale) :
        res \in Resolutions, target \in TargetShapes, pivot \in {Place(0, 0), DefaultPlace},
        position \in {Place(0, 0), Place(1, 1), DefaultPlace},
        orientation \in Orientations \ {0}, scale \in Scales }

TransformScenarios ==
    { Scenario(EmptyHeap, "transform", args) :
        args \in ExactTransforms \cup RotatedTransforms \cup {CentredTransform} }

LayerSpec(name, data, role) == [name |-> name, data |-> data, role |-> role]

\* Layer(data=..., role=...) of a new array
LayerOf(array, role) == LayerInit(array.heap, array.value, Role(role))

\* the layers of the sequence of specs, made on heap h: <<heap, dict entries>>
RECURSIVE AddLayers(_, _, _)
AddLayers(h, specs, entries) ==
    IF specs = <<>> THEN <<h, entries>>
    ELSE AddLayers(LayerOf(NewArray(h, specs[1].data), specs[1].role).heap, Tail(specs),
                   Append(entries, <<Str(specs[1].name),
                                     LayerOf(NewArray(h, specs[1].data), specs[1].role).value>>))

\* Image(layers=..., metadata=...) of the dicts with the entries built[2] and metadata
StoredImage(built, metadata) ==
    ImageInit([built[1] EXCEPT !.dicts = @ \o <<built[2], metadata>>],
              DictRef(Len(built[1].dicts) + 1), DictRef(Len(built[1].dicts) + 2)).heap

\* the heap after Image(layers={...}, metadata={...}) of new layers
WithImage(h, specs, metadata) == StoredImage(AddLayers(h, specs, <<>>), metadata)

\* the heap after one image for each sequence of specs
RECURSIVE WithImages(_, _)
WithImages(h, images) ==
    IF images = <<>> THEN h ELSE WithImages(WithImage(h, images[1], <<>>), Tail(images))

\* the heap of the images background, foreground and (unless it has no layers) mask:
\* images 1, 2, 3
CompositeHeap(background, foreground, mask) ==
    WithImages(EmptyHeap, <<background, foreground>> \o (IF mask = <<>> THEN <<>> ELSE <<mask>>))

CompositeInputs(mask, bglayer, pivot, position, orientation, scale) ==
    [background |-> ImageRef(1), foreground |-> ImageRef(2), mask |-> mask,
     bglayer |-> bglayer, fglayer |-> None, masklayer |-> None, layer |-> None,
     order |-> None, pivot |-> pivot, position |-> position,
     orientation |-> orientation, scale |-> scale]

Backgrounds ==
    { <<LayerSpec(<<"C">>, Ramp(<<2, 2, 1>>, 10), "NONE")>>,
      <<LayerSpec(<<"C">>, Ramp(<<3, 2, 3>>, 10), "RGB")>> }

Foregrounds ==
    { <<LayerSpec(<<"C">>, Ramp(res \o <<ch>>, 0), "NONE")>> : res \in Resolutions, ch \in {1, 3} }

\* no mask; a mask of the foreground's resolution; a mask of one pixel; a mask of
\* three channels
Masks(foreground) ==
    LET res == SubSeq(foreground[1].data.shape, 1, 2)
    IN  { <<>>,
          <<LayerSpec(<<"A">>, Fill(res \o <<1>>, Half), "ALPHA")>>,
          <<LayerSpec(<<"A">>, Fill(<<1, 1, 1>>, Half), "ALPHA")>>,
          <<LayerSpec(<<"A">>, Fill(res \o <<3>>, Half), "NONE")>> }

CompositeScenario(background, foreground, mask, bglayer, pivot, position, orientation, scale) ==
    Scenario(CompositeHeap(background, foreground, mask), "composite",
             CompositeInputs(IF mask = <<>> THEN None ELSE ImageRef(3), bglayer,
                             pivot, position, orientation, scale))

\* translations
TranslationScenarios ==
    { CompositeScenario(bg, fg[1], fg[2], None, pivot, position, None, None) :
        bg \in Backgrounds,
        fg \in UNION { {<<f, m>> : m \in Masks(f)} : f \in Foregrounds },
        pivot \in {None, Place(0, 0)},
        position \in {None} \cup {Place(x, y) : x, y \in Offsets} }

\* rotations and scalings
RotationScenarios ==
    { CompositeScenario(bg, fg, <<>>, None, None, position, turn[1], turn[2]) :
        bg \in Backgrounds,
        fg \in {f \in Foregrounds : f[1].data.shape[3] = 1},
        position \in {None, Place(1, 1)},
        turn \in { <<Number(Int2Rat(90)), None>>,
                   <<None, Tuple(<<Number(Int2Rat(2)), Number(One)>>)>>,
                   <<Number(Int2Rat(180)), Tuple(<<Number(Int2Rat(-1)), Number(One)>>)>> } }
    \cup { CompositeScenario(bg, <<LayerSpec(<<"C">>, Ramp(<<2, 1, 1>>, 0), "NONE")>>,
                             <<LayerSpec(<<"A">>, Fill(<<1, 1, 1>>, Half), "ALPHA")>>,
                             None, None, None, Number(Int2Rat(90)), None) :
             bg \in Backgrounds }

TwoLayers ==
    <<LayerSpec(<<"C">>, Ramp(<<2, 2, 1>>, 10), "NONE"),
      LayerSpec(<<"A">>, Fill(<<2, 2, 1>>, Half), "ALPHA")>>

OnePixel == <<LayerSpec(<<"C">>, Ramp(<<1, 1, 1>>, 0), "NONE")>>

\* a background of two layers with and without the name of one; a layer that the
\* background does not have; a mask of two layers; inputs that are no images
NamedLayerScenarios ==
    { CompositeScenario(TwoLayers, OnePixel, mask, bglayer, None, None, None, None) :
        mask \in {<<>>, TwoLayers}, bglayer \in {None, Str(<<"C">>), Str(<<"A">>), Str(<<"Z">>)} }
    \cup { Scenario(CompositeHeap(TwoLayers, OnePixel, <<>>), "composite",
                    [CompositeInputs(None, Str(<<"C">>), None, None, None, None)
                        EXCEPT ![input] = value]) :
             input \in {"background", "foreground", "mask"}, value \in {None, List} }

\* a ramp of 10x10 over a filled canvas of 100x100, everything else left to its default
CentredScenario ==
    CompositeScenario(<<LayerSpec(<<"C">>, Fill(<<100, 100, 1>>, Half), "NONE")>>,
                      <<LayerSpec(<<"C">>, Ramp(<<10, 10, 1>>, 0), "NONE")>>,
                      <<>>, None, None, None, None, None)

CompositeScenarios ==
    TranslationScenarios \cup RotationScenarios \cup NamedLayerScenarios \cup {CentredScenario}

TransformInit ==
    \E sc \in TransformScenarios \cup CompositeScenarios : heap = sc[1] /\ call = sc[2]

\* transform(source, target_shape, ...)
TransformCall ==
    /\ Called("transform")
    /\ \E slack \in Slacks(call.args.orientation) :
          call' = [call EXCEPT !.out =
                      Transform(call.args.source, call.args.target_shape, call.args.pivot,
                                call.args.position, call.args.orientation, call.args.scale,
                                call.args.order, slack)]
    /\ UNCHANGED heap

\* the call returns or raises, leaving the locals it had
FinishWith(result) ==
    /\ call' = [call EXCEPT !.out = [status |-> result.status, value |-> result.value,
                                     locals |-> result.locals]]
    /\ heap' = result.heap

\* composite(graph, name, inputs); without a mask both calls of transform compute the
\* same matrix
CompositeCall ==
    /\ Called("composite")
    /\ \E s1, s2 \in Slacks(OptionalInput(call.args, "orientation", Number(Zero)).v[1]) :
          /\ call.args.mask = None => s2 = s1
          /\ FinishWith(Composite(heap, call.args, <<s1, s2>>))

TransformNext == TransformCall \/ CompositeCall

SpecTransform == TransformInit /\ [][TransformNext]_vars

\* the layer of an input image that an operator works on
InputLayer(h, image, layer) ==
    DictGet(LayersOf(h, image), LayerMeant(LayersOf(h, image), layer))

\* the only layer of the image a call returned
OutputLayer == LayersOf(heap, call.out.value)[1][2]

IsWholePlace(place) ==
    /\ place.kind = "tuple"
    /\ \A i \in 1..2 : place.items[i].kind = "number" /\ RIsInt(place.items[i].v)

WithinCanvas(region, shape) ==
    /\ 0 <= region[1] /\ region[1] <= region[2] /\ region[2] <= shape[1]
    /\ 0 <= region[3] /\ region[3] <= region[4] /\ region[4] <= shape[2]

\* C6: whatever the source size, target size, pivot, position, scale and orientation,
\* transform returns a region <<rowStart, rowEnd, colStart, colEnd>> that lies within
\* the target canvas and has no negative extent, also when the transformed source
\* lies wholly off the canvas.
C6_RegionClamped ==
    (Done("transform") /\ call.args.position # BogusPlace) =>
        /\ call.out.status = "ok"
        /\ WithinCanvas(call.out.region, call.args.target_shape)

\* the region that lines 356-357 computed has a negative extent and warp has raised
C6_NegativeExtent ==
    /\ Done("transform")
    /\ call.args.orientation = 0 /\ call.args.scale = <<One, One>>
    /\ call.args.source.shape = <<1, 1, 1>> /\ call.args.target_shape = <<2, 2, 1>>
    /\ call.args.pivot = Place(0, 0) /\ call.args.position = Place(-2, 0)
    /\ call.out.region = <<1, 2, 0, -1>>
    /\ call.out.status = "ValueError"

\* C7: with scale (1, 1), orientation 0 and whole pivot (px, py) and position (qx, qy)
\* the source pixel (r, c) lands at target row r - sourceRows + py + targetRows - qy
\* and target column c - px + qx: when some pixel lands on the canvas transform
\* returns, every pixel that lands on the canvas is in the region with its own
\* sample, and the region holds nothing else.  A 10x10 foreground with the default
\* pivot and position on a canvas of 100x100 gets rows 45..55 and columns 45..55, and
\* composite reproduces it there.
C7_PureTranslation ==
    /\ (/\ Done("transform")
        /\ call.args.scale = <<One, One>> /\ call.args.orientation = 0
        /\ IsWholePlace(call.args.pivot) /\ IsWholePlace(call.args.position)) =>
          LET source == call.args.source
              target == call.args.target_shape
              px == call.args.pivot.items[1].v[1]
              py == call.args.pivot.items[2].v[1]
              qx == call.args.position.items[1].v[1]
              qy == call.args.position.items[2].v[1]
              Row(r) == r - source.shape[1] + py + target[1] - qy
              Col(c) == c - px + qx
              landing == { rc \in DOMAIN source.px :
                             /\ Row(rc[1]) \in 0..(target[1] - 1)
                             /\ Col(rc[2]) \in 0..(target[2] - 1) }
              region == call.out.region
              data == call.out.data
          IN  landing # {} =>
                /\ call.out.status = "ok"
                /\ \A rc \in landing :
                      /\ region[1] <= Row(rc[1]) /\ Row(rc[1]) < region[2]
                      /\ region[3] <= Col(rc[2]) /\ Col(rc[2]) < region[4]
                      /\ data.px[<<Row(rc[1]) - region[1], Col(rc[2]) - region[3]>>] = source.px[rc]
                /\ Cardinality(DOMAIN data.px) = Cardinality(landing)
    /\ (Done("transform") /\ call.args = CentredTransform) =>
          /\ call.out.status = "ok"
          /\ call.out.region = <<45, 55, 45, 55>>
    /\ (Done("composite") /\ call.before = CentredScenario[1]) =>
          /\ call.out.status = "ok"
          /\ call.out.locals.region = <<45, 55, 45, 55>>
          /\ \A rc \in Cells(100, 100) :
                DataOf(heap, OutputLayer).px[rc] =
                    IF rc[1] \in 45..54 /\ rc[2] \in 45..54
                    THEN DataOf(call.before, InputLayer(call.before, ImageRef(2), None)).px[
                             <<rc[1] - 45, rc[2] - 45>>]
                    ELSE DataOf(call.before, InputLayer(call.before, ImageRef(1), None)).px[rc]

\* a source of two pixels whose second pixel falls off the right edge of the canvas
C7_Witness ==
    /\ Done("transform")
    /\ call.args.scale = <<One, One>> /\ call.args.orientation = 0
    /\ call.args.source.shape = <<1, 2, 1>> /\ call.args.target_shape = <<2, 2, 1>>
    /\ call.args.pivot = Place(0, 0) /\ call.args.position = Place(1, 1)
    /\ call.out.status = "ok"
    /\ call.out.region = <<0, 1, 1, 2>>
    /\ call.out.data.px[<<0, 0>>] = call.args.source.px[<<0, 0>>]

\* the composite is a translation of a foreground without a mask whose channels the
\* background can take, by whole numbers
IsTranslationOnly ==
    /\ Done("composite")
    /\ call.args.background = ImageRef(1) /\ call.args.foreground = ImageRef(2)
    /\ call.args.mask = None /\ call.args.bglayer = None
    /\ Len(LayersOf(call.before, ImageRef(1))) = 1
    /\ call.args.orientation = None /\ call.args.scale = None
    /\ call.args.pivot # None /\ call.args.position # None
    /\ IsWholePlace(call.args.pivot) /\ IsWholePlace(call.args.position)
    /\ DataOf(call.before, InputLayer(call.before, ImageRef(2), None)).shape[3]
          \in {1, DataOf(call.before, InputLayer(call.before, ImageRef(1), None)).shape[3]}

\* the translated foreground has no point inside the canvas
IsOffCanvas ==
    LET fg == DataOf(call.before, InputLayer(call.before, ImageRef(2), None)).shape
        bg == DataOf(call.before, InputLayer(call.before, ImageRef(1), None)).shape
        left == call.args.position.items[1].v[1] - call.args.pivot.items[1].v[1]
        top == bg[1] - call.args.position.items[2].v[1] + call.args.pivot.items[2].v[1] - fg[1]
    IN  \/ left + fg[2] <= 0 \/ left >= bg[2]
        \/ top + fg[1] <= 0 \/ top >= bg[1]

\* C8: compositing a foreground that lies entirely outside the background, in any
\* direction, completes normally and the output layer equals the background layer
\* sample for sample.
C8_OffCanvasIsNoOp ==
    (IsTranslationOnly /\ IsOffCanvas) =>
        /\ call.out.status = "ok"
        /\ DataOf(heap, OutputLayer).px
              = DataOf(call.before, InputLayer(call.before, ImageRef(1), None)).px

\* a foreground of one pixel two columns to the left of the canvas: composite raises
C8_OffCanvasRaises ==
    /\ IsTranslationOnly /\ IsOffCanvas
    /\ DataOf(call.before, InputLayer(call.before, ImageRef(2), None)).shape = <<1, 1, 1>>
    /\ call.args.pivot = Place(0, 0) /\ call.args.position = Place(-2, 0)
    /\ call.out.status = "ValueError"
    /\ heap.images = call.before.images \o <<heap.images[3], heap.images[4]>>

\* C9: when composite returns, the output layer has the background layer's shape
\* and role, every sample outside the region that transform reported is the
\* background's sample at that place, and every sample inside it is
\* foreground * alpha + background * (1 - alpha) of the transformed foreground and
\* mask.
C9_CompositeFrame ==
    (Done("composite") /\ call.out.status = "ok") =>
        LET input == InputLayer(call.before, call.args.background, call.args.bglayer)
            bg == DataOf(call.before, input)
            out == DataOf(heap, OutputLayer)
            region == call.out.locals.region
            fg == call.out.locals.foreground
            alpha == call.out.locals.alpha
        IN  /\ out.shape = bg.shape
            /\ heap.layers[OutputLayer.ref].role = call.before.layers[input.ref].role
            /\ WithinCanvas(region, bg.shape)
            /\ \A rc \in Cells(bg.shape[1], bg.shape[2]) :
                  IF /\ region[1] <= rc[1] /\ rc[1] < region[2]
                     /\ region[3] <= rc[2] /\ rc[2] < region[4]
                  THEN LET f == BroadcastAt(fg, rc[1] - region[1], rc[2] - region[3])
                           a == BroadcastAt(alpha, rc[1] - region[1], rc[2] - region[3])
                           b == bg.px[rc]
                       IN  IF IsNumber(f) /\ IsNumber(a)
                           THEN out.px[rc] = RAdd(RMul(f, a), RSub(b, RMul(b, a)))
                           ELSE out.px[rc] = <<"blend", f, a, b>>
                  ELSE out.px[rc] = bg.px[rc]

\* a foreground of one pixel under a mask of one half, placed on one pixel of a
\* canvas of 3x2: that pixel is the mean of foreground and background
C9_Witness ==
    /\ Done("composite") /\ call.out.status = "ok"
    /\ call.args.mask = ImageRef(3)
    /\ DataOf(call.before, InputLayer(call.before, ImageRef(1), None)).shape = <<3, 2, 3>>
    /\ DataOf(call.before, InputLayer(call.before, ImageRef(2), None)).shape = <<1, 1, 1>>
    /\ call.out.locals.region = <<1, 2, 1, 2>>
    /\ call.out.locals.alpha.px[<<0, 0>>] = Half
    /\ DataOf(heap, OutputLayer).px[<<1, 1>>] = Rat(1 + 14, 2)
    /\ DataOf(heap, OutputLayer).px[<<0, 0>>] = Int2Rat(11)

(***************************************************************************)
(* The operators that work layer by layer: offset and resize of            *)
(* imagecat/operator/transform.py and gaussian of                          *)
(* imagecat/operator/blur.py.  Each works on the copy that require_image   *)
(* made and stores new Layers in a new Image.  What a filter computes for  *)
(* a sample is left uninterpreted: <<"gaussian", ...>>, <<"resize", ...>>. *)
(***************************************************************************)
Bool(b) == [kind |-> "bool", v |-> b]

\* int(x) of a float: towards zero
PyInt(q) == IF q[1] < 0 THEN -((-q[1]) \div q[2]) ELSE q[1] \div q[2]

\* Layer.res: (width, height)
Res(data) == <<data.shape[2], data.shape[1]>>

\* numpy.roll(data, shift=(xoffset, yoffset), axis=(1, 0))
Roll(data, xoffset, yoffset) ==
    [data EXCEPT !.px = [rc \in Cells(data.shape[1], data.shape[2]) |->
                            data.px[<<(rc[1] - yoffset) % data.shape[1],
                                      (rc[2] - xoffset) % data.shape[2]>>]]]

\* offset, lines 140-142: lengths are those of offset[0] and offset[1]
OffsetData(data, lengths) ==
    IF lengths[1].status # "ok" THEN Raise(lengths[1].status)
    ELSE IF lengths[2].status # "ok" THEN Raise(lengths[2].status)
    ELSE Ok(Roll(data, PyInt(lengths[1].value), -PyInt(lengths[2].value)))

\* gaussian, lines 60-64: radius[1] is resolved before radius[0], and
\* skimage.filters.gaussian refuses a negative sigma
GaussianData(data, lengths) ==
    IF lengths[2].status # "ok" THEN Raise(lengths[2].status)
    ELSE IF lengths[1].status # "ok" THEN Raise(lengths[1].status)
    ELSE IF RLess(lengths[2].value, Zero) \/ RLess(lengths[1].value, Zero) THEN Raise("ValueError")
    ELSE Ok([data EXCEPT !.px = [rc \in Cells(data.shape[1], data.shape[2]) |->
                <<"gaussian", data.px, lengths[2].value, lengths[1].value, rc>>]])

\* resize, lines 182-184: skimage.transform.resize refuses a negative size
ResizeData(data, lengths, order) ==
    IF lengths[1].status # "ok" THEN Raise(lengths[1].status)
    ELSE IF lengths[2].status # "ok" THEN Raise(lengths[2].status)
    ELSE IF PyInt(lengths[1].value) < 0 \/ PyInt(lengths[2].value) < 0 THEN Raise("ValueError")
    ELSE Ok([shape |-> <<PyInt(lengths[2].value), PyInt(lengths[1].value), data.shape[3]>>,
             px |-> [rc \in Cells(PyInt(lengths[2].value), PyInt(lengths[1].value)) |->
                        <<"resize", data.px, order, Res(data), rc>>]])

DefaultRadius == Tuple(<<Str(<<"5", "p", "x">>), Str(<<"5", "p", "x">>)>>)
DefaultRes == Tuple(<<Str(<<"1", "w">>), Str(<<"1", "h">>)>>)

\* the pair of lengths that the operator reads from its inputs
PairOf(op, inputs) ==
    CASE op = "offset" -> OptionalInput(inputs, "offset", DefaultPlace)
      [] op = "gaussian" -> OptionalInput(inputs, "radius", DefaultRadius)
      [] op = "resize" -> OptionalInput(inputs, "res", DefaultRes)

\* length(pair[0], layer.res) and length(pair[1], layer.res)
Lengths(pair, res) == AsTuple([i \in 1..2 |-> Length(pair.items[i], res)])

\* the data that the operator computes from the data of one layer
NewData(op, data, lengths, inputs) ==
    CASE op = "offset" -> OffsetData(data, lengths)
      [] op = "gaussian" -> GaussianData(data, lengths)
      [] op = "resize" ->
            ResizeData(data, lengths, PyInt(OptionalInput(inputs, "order", Number(Int2Rat(DefaultOrder))).v))

\* output.layers[name] = layer
SetLayer(h, image, name, layer) ==
    [h EXCEPT !.dicts[h.images[image.ref].layers] = DictSet(@, name, layer)]

\* output.layers[layer_name] = ..., copy being the outcome of layer.copy(data=data)
LayerPut(copy, output, name) ==
    IF copy.status # "ok" THEN copy
    ELSE HOk(SetLayer(copy.heap, output, name, copy.value), output)

\* layer.copy(data=data) of the new array
LayerCopied(array, layer, output, name) ==
    LayerPut(LayerCopy(array.heap, layer, array.value, None), output, name)

LayerComputed(h, data, layer, output, name) ==
    IF data.status # "ok" THEN HRaise(h, data.status)
    ELSE LayerCopied(NewArray(h, data.value), layer, output, name)

\* the body of the loop over layers, for the layer of one name
OneLayer(h, op, inputs, layer, output, name) ==
    LayerComputed(h, NewData(op, DataOf(h, layer),
                             Lengths(PairOf(op, inputs), Res(DataOf(h, layer))), inputs),
                  layer, output, name)

\* the loop over the layers of image with the names, result being the output so far
RECURSIVE EachLayer(_, _, _, _, _)
EachLayer(result, op, inputs, image, names) ==
    IF result.status # "ok" \/ names = <<>> THEN result
    ELSE EachLayer(OneLayer(result.heap, op, inputs,
                            DictGet(LayersOf(result.heap, image), Str(names[1])),
                            result.value, Str(names[1])),
                   op, inputs, image, Tail(names))

\* image.layers.keys()
Keys(entries) == AsTuple([i \in DOMAIN entries |-> entries[i][1].s])

\* offset and gaussian loop over image.match_layer_names(layers), resize over
\* image.layers.items()
LoopNames(op, inputs, names) ==
    IF op = "resize" THEN names
    ELSE MatchLayerNames(names, OptionalInput(inputs, "layers", Str(<<"*">>)).s)

\* output = Image() and the loop, image being the outcome of require_image
LayerLoop(image, op, inputs) ==
    IF image.status # "ok" THEN image
    ELSE EachLayer(ImageInit(image.heap, None, None), op, inputs, image.value,
                   LoopNames(op, inputs, Keys(LayersOf(image.heap, image.value))))

\* offset(graph, name, inputs)
Offset(h, inputs) == LayerLoop(RequireImage(h, inputs.image), "offset", inputs)

\* gaussian(graph, name, inputs)
Gaussian(h, inputs) == LayerLoop(RequireImage(h, inputs.image), "gaussian", inputs)

\* resize(graph, name, inputs)
Resize(h, inputs) == LayerLoop(RequireImage(h, inputs.image), "resize", inputs)

(***************************************************************************)
(* imagecat/operator/cryptomatte.py.  A pattern of 32 bits is its fields   *)
(* <<sign, exponent, mantissa>>: bit 31, bits 23..30, bits 0..22.  The     *)
(* float that a pattern stands for is <<"float", sign, significand, e>>,   *)
(* the number significand * 2^e with the sign, or <<"inf", sign, 0, 0>>,   *)
(* or <<"nan", sign, mantissa, 0>>.  The names of cryptomattes are made of *)
(* letters and digits.                                                     *)
(***************************************************************************)
\* mmh3.hash(name, signed=False) of the names that the scenarios ask for
Mmh3Hash(name) ==
    CASE name = <<"b", "u", "n", "n", "y">> -> <<0, 39, 334454>>
      [] name = <<"f", "l", "o", "w", "e", "r">> -> <<0, 67, 4631253>>
      [] name = <<"h", "e", "r", "o">> -> <<1, 5, 5124276>>
      [] name = <<"q">> -> <<1, 255, 133608>>
      [] name = <<"j", "m">> -> <<0, 0, 3135869>>

\* lines 38-40 left out: the hash as it is
ExponentKept(hash) == hash

\* lines 38-40: hash_32 ^= 1 << 23 when the exponent is 0 or 255
ExponentFixed(hash) ==
    IF hash[2] \in {0, 255}
    THEN <<hash[1], IF hash[2] % 2 = 0 THEN hash[2] + 1 ELSE hash[2] - 1, hash[3]>>
    ELSE hash

\* struct.unpack("<f", struct.pack("<L", bits))[0]: the float of a pattern, normal
\* with the hidden bit 2^23 unless the exponent is 0 or 255
Float32(bits) ==
    IF bits[2] = 255 THEN (IF bits[3] = 0 THEN <<"inf", bits[1], 0, 0>>
                           ELSE <<"nan", bits[1], bits[3], 0>>)
    ELSE IF bits[2] = 0 THEN <<"float", bits[1], bits[3], -149>>
    ELSE <<"float", bits[1], 8388608 + bits[3], bits[2] - 150>>

\* a NaN that is converted between double and single precision becomes quiet:
\* bit 22 of the mantissa is set
Quiet(mantissa) == IF (mantissa \div 4194304) % 2 = 0 THEN mantissa + 4194304 ELSE mantissa

\* _float32_to_int32, lines 45-47: the pattern of a float
Float32ToInt32(value) ==
    CASE value[1] = "inf" -> <<value[2], 255, 0>>
      [] value[1] = "nan" -> <<value[2], 255, Quiet(value[3])>>
      [] value[1] = "float" /\ value[3] < 8388608 -> <<value[2], 0, value[3]>>
      [] OTHER -> <<value[2], value[4] + 150, value[3] - 8388608>>

\* lines 38-42 of _name_to_float32, for the hash of the name
HashToFloat32(hash) == Float32(ExponentFixed(hash))

\* _name_to_float32
NameToFloat32(name) == HashToFloat32(Mmh3Hash(name))

\* rank_ids == id at one sample: a NaN equals nothing
FloatEqual(sample, id) == sample = id /\ id[1] # "nan"

StartsWith(s, word) == Len(s) >= Len(word) /\ SubSeq(s, 1, Len(word)) = word

\* re.fullmatch(r"cryptomatte/(.{7})/name", key)
IsNameKey(key) ==
    /\ Len(key) = 24
    /\ StartsWith(key, <<"c", "r", "y", "p", "t", "o", "m", "a", "t", "t", "e", "/">>)
    /\ \A i \in 13..19 : key[i] # "\n"
    /\ SubSeq(key, 20, 24) = <<"/", "n", "a", "m", "e">>

\* lines 92-100: the names of the cryptomattes of the metadata, those equal to
\* cryptomatte if one is asked for
CryptomatteNames(metadata, cryptomatte) ==
    SelectSeq(AsTuple([i \in DOMAIN metadata |-> metadata[i]]),
              LAMBDA entry : /\ IsNameKey(entry[1].s)
                             /\ cryptomatte # None => entry[2] = cryptomatte)

ChannelWords == <<<<"r", "e", "d">>, <<"g", "r", "e", "e", "n">>, <<"b", "l", "u", "e">>, <<"a", "l", "p", "h", "a">>, <<"r">>, <<"g">>, <<"b">>, <<"a">>>>

\* re.match(f"{cryptomatte_name}\\d{{2}}[.](red|green|blue|alpha|r|g|b|a)", layer, re.IGNORECASE)
IsRankLayer(layer, name) ==
    /\ StartsWith(StrLower(layer), StrLower(name))
    /\ Len(layer) >= Len(name) + 3
    /\ IsDigit(layer[Len(name) + 1]) /\ IsDigit(layer[Len(name) + 2])
    /\ layer[Len(name) + 3] = "."
    /\ \E i \in DOMAIN ChannelWords :
          StartsWith(StrLower(SubSeq(layer, Len(name) + 4, Len(layer))), ChannelWords[i])

\* the place of the "." at which layer.rsplit(".", 1) splits
LastDot(layer) ==
    CHOOSE i \in DOMAIN layer : layer[i] = "." /\ \A j \in (i + 1)..Len(layer) : layer[j] # "."

\* channel_key, lines 115-117; -1 for the None that dict.get returns
ChannelKey(layer) ==
    LET channel == StrLower(SubSeq(layer, LastDot(layer) + 1, Len(layer)))
    IN  CASE channel \in {<<"r">>, <<"r", "e", "d">>} -> 0
          [] channel \in {<<"g">>, <<"g", "r", "e", "e", "n">>} -> 1
          [] channel \in {<<"b">>, <<"b", "l", "u", "e">>} -> 2
          [] channel \in {<<"a">>, <<"a", "l", "p", "h", "a">>} -> 3
          [] OTHER -> -1

\* layer_key, lines 119-120
LayerPrefix(layer) == SubSeq(layer, 1, LastDot(layer) - 1)

\* the order of the characters
Ascii == <<".", "/">> \o Digits \o UpperCase \o <<"_">> \o LowerCase
Code(c) == CHOOSE i \in DOMAIN Ascii : Ascii[i] = c

\* s < t of two str
RECURSIVE StrLess(_, _)
StrLess(s, t) ==
    IF t = <<>> THEN FALSE
    ELSE IF s = <<>> THEN TRUE
    ELSE IF s[1] = t[1] THEN StrLess(Tail(s), Tail(t))
    ELSE Code(s[1]) < Code(t[1])

\* sorted(q, key=...), which is stable; Less(a, b) is key(a) < key(b)
Sorted(q, Less(_, _)) ==
    AsTuple([k \in DOMAIN q |->
        q[CHOOSE i \in DOMAIN q :
            Cardinality({j \in DOMAIN q : Less(q[j], q[i]) \/ (~Less(q[i], q[j]) /\ j < i)}) = k - 1]])

\* lines 122-123 the other way round: by layer_key first, then by channel_key
SortedByChannelLast(layers) ==
    Sorted(Sorted(layers, LAMBDA a, b : StrLess(LayerPrefix(a), LayerPrefix(b))),
           LAMBDA a, b : ChannelKey(a) < ChannelKey(b))

\* lines 122-123
SortedLayers(layers) ==
    Sorted(Sorted(layers, LAMBDA a, b : ChannelKey(a) < ChannelKey(b)),
           LAMBDA a, b : StrLess(LayerPrefix(a), LayerPrefix(b)))

\* lines 131 and 148: zip(layers[0::2], layers[1::2])
RankPairs(layers) ==
    AsTuple([k \in 1..(Len(layers) \div 2) |-> <<layers[2 * k - 1], layers[2 * k]>>])

\* image.layers[name].data
RankData(h, image, name) == DataOf(h, DictGet(LayersOf(h, image), Str(name)))

\* lines 136-139: data[selection] = color for each matte, the color being
\* numpy.random.default_rng(seed).uniform(size=3) of the bits of the id
RECURSIVE Painted(_, _, _)
Painted(data, ids, mattes) ==
    IF mattes = <<>> THEN data
    ELSE Painted([data EXCEPT !.px = [rc \in Cells(data.shape[1], data.shape[2]) |->
                     IF FloatEqual(ids.px[rc], NameToFloat32(mattes[1].s))
                     THEN <<"uniform">> \o Float32ToInt32(NameToFloat32(mattes[1].s))
                     ELSE data.px[rc]]],
                 ids, Tail(mattes))

\* lines 132-139, of the first pair alone
ClownData(ids, mattes) == Painted(Zeros(<<ids.shape[1], ids.shape[2], 3>>), ids, mattes)

\* a + b of two samples; the sum with the float of a pattern is left uninterpreted
Plus(a, b) == IF IsNumber(a) /\ IsNumber(b) THEN RAdd(a, b) ELSE <<"sum", a, b>>

\* line 157 with = for +=: data[selection] = rank_coverage[selection]
AccumulateLast(data, ids, coverage, id) ==
    [data EXCEPT !.px = [rc \in Cells(data.shape[1], data.shape[2]) |->
        IF FloatEqual(ids.px[rc], id) THEN coverage.px[rc] ELSE data.px[rc]]]

\* lines 156-157: data[selection] += rank_coverage[selection]
Accumulate(data, ids, coverage, id) ==
    [data EXCEPT !.px = [rc \in Cells(data.shape[1], data.shape[2]) |->
        IF FloatEqual(ids.px[rc], id) THEN Plus(data.px[rc], coverage.px[rc]) ELSE data.px[rc]]]

\* lines 155-157 for one pair: a boolean index of another shape is an IndexError
RECURSIVE EachMatte(_, _, _, _)
EachMatte(data, ids, coverage, mattes) ==
    IF mattes = <<>> THEN Ok(data)
    ELSE IF coverage.shape # ids.shape THEN Raise("IndexError")
    ELSE EachMatte(Accumulate(data, ids, coverage, NameToFloat32(mattes[1].s)),
                   ids, coverage, Tail(mattes))

\* lines 146-157; data is None until the first pair
RECURSIVE EachRank(_, _, _, _, _)
EachRank(h, image, data, pairs, mattes) ==
    IF data.status # "ok" \/ pairs = <<>> THEN data
    ELSE EachRank(h, image,
                  EachMatte(IF data.value = None THEN Zeros(RankData(h, image, pairs[1][1]).shape)
                            ELSE data.value,
                            RankData(h, image, pairs[1][1]), RankData(h, image, pairs[1][2]),
                            mattes),
                  Tail(pairs), mattes)

\* Image(layers={layer: ...}) of the Layer that was made
ImageOfLayer(made, layer) ==
    IF made.status # "ok" THEN made
    ELSE ImageInit([made.heap EXCEPT !.dicts = Append(@, << <<layer, made.value>> >>)],
                   DictRef(Len(made.heap.dicts) + 1), None)

\* lines 141 and 159: Layer(data=data, role=...), which refuses a data of None
DecoderMade(h, data, layer, role) ==
    IF data.status # "ok" THEN HRaise(h, data.status)
    ELSE IF data.value = None THEN HRaise(h, "ValueError")
    ELSE ImageOfLayer(LayerOf(NewArray(h, data.value), role), layer)

\* lines 131-142 without the break of line 142: output is that of the last pair
ClownRankLast(pairs) == pairs[Len(pairs)]

\* lines 131-142: the loop over the pairs ends after the first
ClownRank(pairs) == pairs[1]

\* lines 130-159: in clown mode output is bound in the loop alone
DecoderPairs(h, image, inputs, pairs, mattes) ==
    IF OptionalInput(inputs, "clown", Bool(FALSE)).v
    THEN IF pairs = <<>> THEN HRaise(h, "UnboundLocalError")
         ELSE DecoderMade(h, Ok(ClownData(RankData(h, image, ClownRank(pairs)[1]), mattes)),
                          OptionalInput(inputs, "layer", Str(<<"M">>)), "RGB")
    ELSE DecoderMade(h, EachRank(h, image, Ok(None), pairs, mattes),
                     OptionalInput(inputs, "layer", Str(<<"M">>)), "MATTE")

\* lines 122-127: None < None is a TypeError
DecoderLayers(h, image, inputs, layers) ==
    IF layers = <<>> THEN HRaise(h, "RuntimeError")
    ELSE IF Len(layers) > 1 /\ \E i \in DOMAIN layers : ChannelKey(layers[i]) = -1
    THEN HRaise(h, "TypeError")
    ELSE DecoderPairs(h, image, inputs, RankPairs(SortedLayers(layers)),
                      OptionalInput(inputs, "mattes", Tuple(<<>>)).items)

\* lines 101-113
DecoderNames(h, image, inputs, names) ==
    IF names = <<>> THEN HRaise(h, "RuntimeError")
    ELSE IF Len(names) > 1 THEN HRaise(h, "ValueError")
    ELSE DecoderLayers(h, image, inputs,
                       SelectSeq(Keys(LayersOf(h, image)),
                                 LAMBDA layer : IsRankLayer(layer, names[1][2].s)))

\* lines 86-100, image being the outcome of require_image
DecoderImage(image, inputs) ==
    IF image.status # "ok" THEN image
    ELSE DecoderNames(image.heap, image.value, inputs,
                      CryptomatteNames(MetadataOf(image.heap, image.value), inputs.cryptomatte))

\* decoder(graph, name, inputs)
Decoder(h, inputs) == DecoderImage(RequireImage(h, inputs.image), inputs)

\* cryptomatte_layers when the call ends, lines 109-123: sorted unless sorted raised
LayersLocal(layers) ==
    IF Len(layers) > 1 /\ \E i \in DOMAIN layers : ChannelKey(layers[i]) = -1 THEN layers
    ELSE SortedLayers(layers)

\* cryptomatte_names and cryptomatte_layers when the call ends
NamesLocal(h, image, names) ==
    [names |-> names,
     layers |-> IF Len(names) # 1 THEN <<>>
                ELSE LayersLocal(SelectSeq(Keys(LayersOf(h, image)),
                                           LAMBDA layer : IsRankLayer(layer, names[1][2].s)))]

\* the locals of decoder when the call ends
DecoderLocals(h, inputs) ==
    IF inputs.image = None \/ inputs.image.kind # "Image" THEN [names |-> <<>>, layers |-> <<>>]
    ELSE NamesLocal(h, inputs.image,
                    CryptomatteNames(MetadataOf(h, inputs.image), inputs.cryptomatte))

(***************************************************************************)
(* Calls of the operators on images that exist.                            *)
(***************************************************************************)
MaxShift == 1

Shifts == (-MaxShift)..MaxShift

\* an array with the samples, row after row
Pixels(shape, samples) ==
    [shape |-> shape,
     px |-> [rc \in Cells(shape[1], shape[2]) |-> samples[rc[1] * shape[2] + rc[2] + 1]]]

OperatorImages ==
    { <<LayerSpec(<<"C">>, Ramp(<<2, 3, 1>>, 0), "NONE")>>, TwoLayers }

\* the input named image: an image, nothing, something that is no image
ImageArgs == {ImageRef(1), None, List}

LayerPatterns == {None, Str(<<"C">>), Str(<<"A", "*", " ", "Z">>), Str(<<"Z">>)}

OperatorScenario(specs, op, inputs) == Scenario(WithImages(EmptyHeap, <<specs>>), op, inputs)

OffsetScenarios ==
    { OperatorScenario(specs, "offset", [image |-> image, layers |-> layers, offset |-> offset]) :
        specs \in OperatorImages, image \in ImageArgs, layers \in LayerPatterns,
        offset \in {None, BogusPlace} \cup {Place(x, y) : x, y \in Shifts} }

GaussianScenarios ==
    { OperatorScenario(specs, "gaussian", [image |-> image, layers |-> layers, radius |-> radius]) :
        specs \in OperatorImages, image \in ImageArgs, layers \in LayerPatterns,
        radius \in {None, BogusPlace, Place(0, 0), Place(1, 2), Place(-1, 0),
                    Tuple(<<Str(<<"0", ".", "5", "w">>), Str(<<"1", "p", "x">>)>>)} }

ResizeScenarios ==
    { OperatorScenario(specs, "resize", [image |-> image, res |-> res, order |-> order]) :
        specs \in OperatorImages, image \in ImageArgs,
        res \in {None, BogusPlace, Place(1, 1), Place(3, 2), Place(-1, 1),
                 Tuple(<<Str(<<"2", "w">>), Str(<<"0", ".", "5", "h">>)>>)},
        order \in {None, Number(One)} }

BunnyId == NameToFloat32(<<"b", "u", "n", "n", "y">>)
FlowerId == NameToFloat32(<<"f", "l", "o", "w", "e", "r">>)
QId == NameToFloat32(<<"q">>)

\* two ranks of ids and coverage over two pixels, and a layer that is no rank
RankLayers ==
    <<LayerSpec(<<"c", "r", "y", "p", "t", "o", "0", "0", ".", "g">>, Pixels(<<1, 2, 1>>, <<Rat(3, 4), Half>>), "NONE"),
      LayerSpec(<<"C">>, Ramp(<<1, 2, 3>>, 0), "RGB"),
      LayerSpec(<<"c", "r", "y", "p", "t", "o", "0", "0", ".", "a">>, Pixels(<<1, 2, 1>>, <<Rat(1, 4), Half>>), "NONE"),
      LayerSpec(<<"c", "r", "y", "p", "t", "o", "0", "0", ".", "b">>, Pixels(<<1, 2, 1>>, <<FlowerId, BunnyId>>), "NONE"),
      LayerSpec(<<"c", "r", "y", "p", "t", "o", "0", "0", ".", "r">>, Pixels(<<1, 2, 1>>, <<BunnyId, FlowerId>>), "NONE")>>

\* all the layers; one rank; half a rank; no rank; a layer whose channel has no key;
\* a rank of two channels; a coverage of more channels than the ids
DecoderImages ==
    { RankLayers,
      <<RankLayers[5], RankLayers[1]>>,
      <<RankLayers[5]>>,
      <<RankLayers[2]>>,
      <<RankLayers[5], LayerSpec(<<"c", "r", "y", "p", "t", "o", "0", "0", ".", "r", "x">>, RankLayers[1].data, "NONE")>>,
      <<LayerSpec(<<"C", "r", "y", "p", "t", "o", "0", "0", ".", "R", "e", "d">>, Pixels(<<1, 1, 2>>, <<BunnyId>>), "NONE"),
        LayerSpec(<<"c", "r", "y", "p", "t", "o", "0", "0", ".", "g", "r", "e", "e", "n">>, Pixels(<<1, 1, 2>>, <<Half>>), "NONE")>>,
      <<LayerSpec(<<"c", "r", "y", "p", "t", "o", "0", "0", ".", "R">>, Pixels(<<1, 1, 1>>, <<BunnyId>>), "NONE"),
        LayerSpec(<<"c", "r", "y", "p", "t", "o", "0", "0", ".", "G">>, Pixels(<<1, 1, 3>>, <<Half>>), "NONE")>> }

\* the layers of four ranks under two prefixes, in rank order
PrefixLayers ==
    <<LayerSpec(<<"c", "r", "y", "p", "t", "o", "0", "0", ".", "r", "e", "d">>, Pixels(<<1, 2, 1>>, <<BunnyId, BunnyId>>), "NONE"),
      LayerSpec(<<"c", "r", "y", "p", "t", "o", "0", "0", ".", "G">>, Pixels(<<1, 2, 1>>, <<Rat(3, 10), Rat(3, 4)>>), "NONE"),
      LayerSpec(<<"c", "r", "y", "p", "t", "o", "0", "0", ".", "b">>, Pixels(<<1, 2, 1>>, <<BunnyId, FlowerId>>), "NONE"),
      LayerSpec(<<"c", "r", "y", "p", "t", "o", "0", "0", ".", "A", "l", "p", "h", "a">>, Pixels(<<1, 2, 1>>, <<Rat(4, 10), Half>>), "NONE"),
      LayerSpec(<<"c", "r", "y", "p", "t", "o", "0", "1", ".", "R">>, Pixels(<<1, 2, 1>>, <<FlowerId, FlowerId>>), "NONE"),
      LayerSpec(<<"c", "r", "y", "p", "t", "o", "0", "1", ".", "g", "r", "e", "e", "n">>, Pixels(<<1, 2, 1>>, <<Rat(1, 5), Rat(1, 5)>>), "NONE"),
      LayerSpec(<<"c", "r", "y", "p", "t", "o", "0", "1", ".", "B", "L", "U", "E">>, Pixels(<<1, 2, 1>>, <<QId, BunnyId>>), "NONE"),
      LayerSpec(<<"c", "r", "y", "p", "t", "o", "0", "1", ".", "a">>, Pixels(<<1, 2, 1>>, <<One, Half>>), "NONE")>>

\* the orders in which an image stores them
StorageOrders ==
    { <<1, 2, 3, 4, 5, 6, 7, 8>>, <<8, 7, 6, 5, 4, 3, 2, 1>>, <<6, 1, 8, 3, 5, 2, 4, 7>> }

PrefixImages == { AsTuple([i \in 1..8 |-> PrefixLayers[order[i]]]) : order \in StorageOrders }

\* a rank and one more layer: names that go on after the channel, the layer of
\* another cryptomatte
ExtraLayerImages ==
    { <<RankLayers[5], RankLayers[1], LayerSpec(name, RankLayers[4].data, "NONE")>> :
        name \in {<<"c", "r", "y", "p", "t", "o", "0", "0", ".", "r", "x">>, <<"c", "r", "y", "p", "t", "o", "0", "0", ".", "r", "e", "d", ".", "e", "x", "t", "r", "a">>, <<"o", "t", "h", "e", "r", "0", "0", ".", "r">>} }

DecoderMetadata ==
    { <<>>,
      << <<Str(<<"c", "r", "y", "p", "t", "o", "m", "a", "t", "t", "e", "/", "a", "b", "c", "1", "2", "3", "4", "/", "n", "a", "m", "e">>), Str(<<"c", "r", "y", "p", "t", "o">>)>>,
         <<Str(<<"c", "r", "y", "p", "t", "o", "m", "a", "t", "t", "e", "/", "z", "z", "z", "z", "z", "z", "z", "/", "n", "a", "m", "e">>), Str(<<"o", "t", "h", "e", "r">>)>> >>,
      << <<Str(<<"c", "r", "y", "p", "t", "o", "m", "a", "t", "t", "e", "/", "a", "b", "c", "1", "2", "3", "4", "5", "/", "n", "a", "m", "e">>), Str(<<"o", "t", "h", "e", "r">>)>>,
         <<Str(<<"c", "r", "y", "p", "t", "o", "m", "a", "t", "t", "e", "/", "a", "b", "c", "1", "2", "3", "4", "/", "n", "a", "m", "e">>), Str(<<"c", "r", "y", "p", "t", "o">>)>> >>,
      << <<Str(<<"c", "r", "y", "p", "t", "o", "m", "a", "t", "t", "e", "/", "a", "b", "c", "1", "2", "3", "4", "/", "n", "a", "m", "e">>), Str(<<"c", "r", "y", "p", "t", "o">>)>>,
         <<Str(<<"c", "r", "y", "p", "t", "o", "m", "a", "t", "t", "e", "/", "a", "b", "c", "1", "2", "3", "4", "/", "h", "a", "s", "h">>), Str(<<"M", "u", "r", "m", "u", "r", "H", "a", "s", "h", "3", "_", "3", "2">>)>> >>,
      << <<Str(<<"c", "r", "y", "p", "t", "o", "m", "a", "t", "t", "e", "/", "a", "b", "c", "1", "2", "3", "4", "/", "n", "a", "m", "e">>), Str(<<"c", "r", "y", "p", "t", "o">>)>>,
         <<Str(<<"c", "r", "y", "p", "t", "o", "m", "a", "t", "t", "e", "/", "1", "2", "3", "4", "5", "6", "7", "/", "n", "a", "m", "e">>), Str(<<"o", "t", "h", "e", "r">>)>> >> }

DecoderScenarios ==
    { Scenario(WithImage(EmptyHeap, specs, metadata), "decoder",
               [image |-> ImageRef(1), clown |-> clown, cryptomatte |-> cryptomatte,
                layer |-> layer, mattes |-> mattes]) :
        specs \in DecoderImages \cup PrefixImages \cup ExtraLayerImages,
        metadata \in DecoderMetadata,
        clown \in {None, Bool(TRUE)},
        layer \in {None, Str(<<"K">>)},
        cryptomatte \in {None, Str(<<"c", "r", "y", "p", "t", "o">>), Str(<<"o", "t", "h", "e", "r">>)},
        mattes \in {None, Tuple(<<Str(<<"b", "u", "n", "n", "y">>)>>), Tuple(<<Str(<<"f", "l", "o", "w", "e", "r">>), Str(<<"b", "u", "n", "n", "y">>)>>),
                    Tuple(<<Str(<<"q">>), Str(<<"j", "m">>)>>)} }

\* foregrounds pasted on, beside and off the background, besides the named layers
PastingScenarios ==
    { CompositeScenario(bg, fg[1], fg[2], None, Place(0, 0), position, None, None) :
        bg \in Backgrounds,
        fg \in UNION { {<<f, m>> : m \in Masks(f)} : f \in Foregrounds },
        position \in {None, Place(0, 0), Place(-2, 0)} }
    \cup NamedLayerScenarios

OperatorInit ==
    \E sc \in OffsetScenarios \cup GaussianScenarios \cup ResizeScenarios
                \cup DecoderScenarios \cup PastingScenarios :
        heap = sc[1] /\ call = sc[2]

OffsetCall == Called("offset") /\ Finish(Offset(heap, call.args))

GaussianCall == Called("gaussian") /\ Finish(Gaussian(heap, call.args))

ResizeCall == Called("resize") /\ Finish(Resize(heap, call.args))

DecoderCall ==
    /\ Called("decoder")
    /\ FinishWith(Returned(Decoder(heap, call.args), DecoderLocals(heap, call.args)))

OperatorNext == OffsetCall \/ GaussianCall \/ ResizeCall \/ DecoderCall \/ CompositeCall

SpecOperators == OperatorInit /\ [][OperatorNext]_vars

\* the images that exist before the call
InputImages == {ImageRef(i) : i \in DOMAIN call.before.images}

\* C10: composite, offset, resize, gaussian and the Cryptomatte decoder never change
\* what they are given: when the call has returned or raised, every image that
\* existed before it has the same layer names mapped to the same Layer objects, the
\* same metadata, and every Layer of it the same role and the same samples as
\* before; and the Image that is returned is an object that did not exist before
\* the call.
C10_InputsUntouched ==
    (call.op \in {"composite", "offset", "resize", "gaussian", "decoder"} /\ call.out # Pending) =>
        /\ \A image \in InputImages :
              /\ heap.images[image.ref] = call.before.images[image.ref]
              /\ LayersOf(heap, image) = LayersOf(call.before, image)
              /\ MetadataOf(heap, image) = MetadataOf(call.before, image)
              /\ \A i \in DOMAIN LayersOf(call.before, image) :
                    /\ heap.layers[LayersOf(call.before, image)[i][2].ref]
                          = call.before.layers[LayersOf(call.before, image)[i][2].ref]
                    /\ DataOf(heap, LayersOf(call.before, image)[i][2])
                          = DataOf(call.before, LayersOf(call.before, image)[i][2])
        /\ call.out.status = "ok" =>
              /\ call.out.value.kind = "Image"
              /\ call.out.value \notin InputImages
              /\ \A image \in InputImages :
                    /\ heap.images[call.out.value.ref].layers # heap.images[image.ref].layers
                    /\ heap.images[call.out.value.ref].metadata # heap.images[image.ref].metadata

\* a foreground of one pixel pasted on the lower left pixel of a background of 2x2:
\* the output has the foreground's sample there, the background still its own
C10_Witness ==
    /\ Done("composite") /\ call.out.status = "ok"
    /\ call.args.mask = None /\ call.args.position = Place(0, 0)
    /\ DataOf(call.before, InputLayer(call.before, ImageRef(1), None)).shape = <<2, 2, 1>>
    /\ DataOf(call.before, InputLayer(call.before, ImageRef(2), None)).shape = <<1, 1, 1>>
    /\ call.out.locals.region = <<1, 2, 0, 1>>
    /\ DataOf(heap, OutputLayer).px[<<1, 0>>]
          = DataOf(call.before, InputLayer(call.before, ImageRef(2), None)).px[<<0, 0>>]
    /\ DataOf(heap, OutputLayer).px[<<1, 0>>]
          # DataOf(call.before, InputLayer(call.before, ImageRef(1), None)).px[<<1, 0>>]
    /\ DataOf(heap, InputLayer(heap, ImageRef(1), None))
          = DataOf(call.before, InputLayer(call.before, ImageRef(1), None))

(***************************************************************************)
(* Identifiers of cryptomatte names: _name_to_float32 for the hashes of    *)
(* names, and the pattern that _float32_to_int32 reads back.               *)
(***************************************************************************)
MantissaSamples == {0, 1, 133608, 4194304, 8388607}

\* hashes with every exponent, and those of the names
HashSamples ==
    ({0, 1} \X (0..255) \X MantissaSamples)
    \cup {Mmh3Hash(name) : name \in {<<"b", "u", "n", "n", "y">>, <<"f", "l", "o", "w", "e", "r">>, <<"h", "e", "r", "o">>, <<"q">>, <<"j", "m">>}}

HashInit ==
    \E hash \in HashSamples :
        /\ heap = EmptyHeap
        /\ call = Scenario(EmptyHeap, "_name_to_float32", [hash |-> hash])[2]

\* _name_to_float32(name) for a name of the hash, and _float32_to_int32 of the float
NameToFloat32Call ==
    /\ Called("_name_to_float32")
    /\ call' = [call EXCEPT !.out = [status |-> "ok",
                                     value |-> HashToFloat32(call.args.hash),
                                     bits |-> Float32ToInt32(HashToFloat32(call.args.hash))]]
    /\ UNCHANGED heap

HashNext == NameToFloat32Call

SpecHash == HashInit /\ [][HashNext]_vars

\* C11: for every hash of 32 bits the identifier of a name is a normal float; its
\* pattern is the hash itself when the exponent field of the hash (bits 23..30) is
\* neither 0 nor 255, and the hash with bit 23 alone flipped otherwise, so that the
\* exponent field of the pattern lies in 1..254 and sign, mantissa and the bits
\* 24..30 are those of the hash; reading the float back as 32 bits gives that
\* pattern.
C11_HashIdIsNormal ==
    Done("_name_to_float32") =>
        /\ call.out.value[1] = "float" /\ call.out.value[3] >= 8388608
        /\ call.out.bits[2] \in 1..254
        /\ call.out.bits[1] = call.args.hash[1]
        /\ call.out.bits[3] = call.args.hash[3]
        /\ call.out.bits[2] \div 2 = call.args.hash[2] \div 2
        /\ call.args.hash[2] \notin {0, 255} => call.out.bits = call.args.hash
        /\ call.args.hash[2] \in {0, 255} => call.out.bits[2] # call.args.hash[2]
        /\ Float32(call.out.bits) = call.out.value

\* the hash of "q" has the exponent 255: its identifier has the exponent 254
C11_Witness ==
    /\ Done("_name_to_float32")
    /\ call.args.hash = Mmh3Hash(<<"q">>)
    /\ call.args.hash[2] = 255
    /\ call.out.bits = <<1, 254, 133608>>
    /\ call.out.value = <<"float", 1, 8388608 + 133608, 104>>

\* the sum of a sequence of numbers
RECURSIVE SumOf(_)
SumOf(q) == IF q = <<>> THEN Zero ELSE RAdd(q[1], SumOf(Tail(q)))

\* the decoder returned a matte that is no clown matte
IsRegularDecode ==
    /\ Done("decoder") /\ call.out.status = "ok"
    /\ ~OptionalInput(call.args, "clown", Bool(FALSE)).v

\* the data of the layer of the input image that is the id (which = 1) or the
\* coverage (which = 2) of rank k
RankArray(k, which) == RankData(call.before, call.args.image, call.out.locals.layers[2 * (k - 1) + which])

\* C12: a regular decode accumulates and never clamps: at every pixel the output is
\* the sum, over all rank pairs and all requested names, of the coverage of the rank
\* where the id of the rank is the identifier of the name, and 0 where nothing
\* matches; ranks that cover an identifier with 3/10 and 4/10 give 7/10 and sums
\* above 1 are kept.  The output image has one layer, named by the input layer
\* ("M" by default), of one channel with role MATTE.
C12_RegularAccumulates ==
    IsRegularDecode =>
        /\ Len(LayersOf(heap, call.out.value)) = 1
        /\ LayersOf(heap, call.out.value)[1][1] = OptionalInput(call.args, "layer", Str(<<"M">>))
        /\ heap.layers[OutputLayer.ref].role = "MATTE"
        /\ DataOf(heap, OutputLayer).shape[3] = 1
        /\ \A rc \in DOMAIN RankArray(1, 1).px :
              DataOf(heap, OutputLayer).px[rc] =
                  SumOf([n \in 1..(Len(OptionalInput(call.args, "mattes", Tuple(<<>>)).items)
                                    * (Len(call.out.locals.layers) \div 2)) |->
                      LET k == 1 + ((n - 1) % (Len(call.out.locals.layers) \div 2))
                          i == 1 + ((n - 1) \div (Len(call.out.locals.layers) \div 2))
                      IN  IF RankArray(k, 1).px[rc]
                               = NameToFloat32(call.args.mattes.items[i].s)
                          THEN RankArray(k, 2).px[rc]
                          ELSE Zero])

\* the ranks of crypto00 cover bunny with 3/10 and 4/10 at the first pixel and, with
\* a rank of crypto01, with 3/4 and 1/2 at the second: the matte of bunny is 7/10
\* and 5/4
C12_Witness ==
    /\ IsRegularDecode
    /\ call.args.mattes = Tuple(<<Str(<<"b", "u", "n", "n", "y">>)>>)
    /\ call.args.layer = Str(<<"K">>)
    /\ Len(call.out.locals.layers) = 8
    /\ Keys(LayersOf(heap, call.out.value)) = <<<<"K">>>>
    /\ DataOf(heap, OutputLayer).px[<<0, 0>>] = Rat(7, 10)
    /\ DataOf(heap, OutputLayer).px[<<0, 1>>] = Rat(5, 4)

\* the decoder returned a clown matte
IsClownDecode ==
    /\ Done("decoder") /\ call.out.status = "ok"
    /\ OptionalInput(call.args, "clown", Bool(FALSE)).v

\* the requested names whose identifier is the id
NamesOfId(id) ==
    { i \in DOMAIN OptionalInput(call.args, "mattes", Tuple(<<>>)).items :
        id = NameToFloat32(call.args.mattes.items[i].s) }

\* C13: a clown decode uses the top rank pair alone: a pixel whose top rank id is the
\* identifier of a requested name has the colour that the generator seeded with the
\* pattern of that identifier draws, whatever else is requested; a pixel whose top
\* rank id is that of no requested name stays zero, also where a lower rank
\* matches; the output is one layer of three channels with role RGB.
C13_ClownTopRank ==
    IsClownDecode =>
        /\ Len(LayersOf(heap, call.out.value)) = 1
        /\ LayersOf(heap, call.out.value)[1][1] = OptionalInput(call.args, "layer", Str(<<"M">>))
        /\ heap.layers[OutputLayer.ref].role = "RGB"
        /\ DataOf(heap, OutputLayer).shape[3] = 3
        /\ \A rc \in DOMAIN RankArray(1, 1).px :
              /\ \A i \in NamesOfId(RankArray(1, 1).px[rc]) :
                    DataOf(heap, OutputLayer).px[rc]
                        = <<"uniform">> \o ExponentFixed(Mmh3Hash(call.args.mattes.items[i].s))
              /\ NamesOfId(RankArray(1, 1).px[rc]) = {} => DataOf(heap, OutputLayer).px[rc] = Zero

\* the top rank has bunny and flower, the second rank flower and bunny: asked for
\* bunny, the first pixel has the colour of bunny and the second stays zero
C13_Witness ==
    /\ IsClownDecode
    /\ call.args.mattes = Tuple(<<Str(<<"b", "u", "n", "n", "y">>)>>)
    /\ Len(call.out.locals.layers) = 4
    /\ RankArray(1, 1).px[<<0, 1>>] = FlowerId
    /\ RankArray(2, 1).px[<<0, 1>>] = BunnyId
    /\ DataOf(heap, OutputLayer).px[<<0, 0>>] = <<"uniform", 0, 39, 334454>>
    /\ DataOf(heap, OutputLayer).px[<<0, 1>>] = Zero

\* the place of the channel of a layer name among r, g, b, a, by its first letter
ChannelPlace(layer) ==
    CHOOSE k \in 1..4 : <<"r", "g", "b", "a">>[k] = StrLower(layer)[LastDot(layer) + 1]

\* the decoder sorted the layers it collected
HasSortedLayers ==
    /\ Done("decoder")
    /\ call.out.locals.layers # <<>>
    /\ \A i \in DOMAIN call.out.locals.layers : ChannelKey(call.out.locals.layers[i]) # -1

\* C14: the layers that the decoder collected, each with one of the channels red,
\* green, blue, alpha, r, g, b, a in any case, are ordered by the part of the name
\* before the last "." and, under one prefix, by channel r < g < b < a, and are
\* paired two by two in that order.  The layers of crypto00 and crypto01 with four
\* channels each give the ranks (crypto00.r, crypto00.g), (crypto00.b, crypto00.a),
\* (crypto01.r, crypto01.g), (crypto01.b, crypto01.a), however the image stores them.
C14_RankOrder ==
    HasSortedLayers =>
        LET layers == call.out.locals.layers
            stored == Keys(LayersOf(call.before, call.args.image))
        IN  /\ Len(layers) = Cardinality({layers[i] : i \in DOMAIN layers})
            /\ {layers[i] : i \in DOMAIN layers}
                  = {stored[i] : i \in {j \in DOMAIN stored :
                                          IsRankLayer(stored[j], call.out.locals.names[1][2].s)}}
            /\ \A i, j \in DOMAIN layers :
                  i < j => \/ StrLess(LayerPrefix(layers[i]), LayerPrefix(layers[j]))
                           \/ /\ LayerPrefix(layers[i]) = LayerPrefix(layers[j])
                              /\ ChannelPlace(layers[i]) <= ChannelPlace(layers[j])
            /\ Len(layers) = 8 =>
                  /\ layers = Keys([i \in 1..8 |-> <<Str(PrefixLayers[i].name)>>])
                  /\ RankPairs(layers)
                        = << <<<<"c", "r", "y", "p", "t", "o", "0", "0", ".", "r", "e", "d">>, <<"c", "r", "y", "p", "t", "o", "0", "0", ".", "G">>>>, <<<<"c", "r", "y", "p", "t", "o", "0", "0", ".", "b">>, <<"c", "r", "y", "p", "t", "o", "0", "0", ".", "A", "l", "p", "h", "a">>>>,
                             <<<<"c", "r", "y", "p", "t", "o", "0", "1", ".", "R">>, <<"c", "r", "y", "p", "t", "o", "0", "1", ".", "g", "r", "e", "e", "n">>>>, <<<<"c", "r", "y", "p", "t", "o", "0", "1", ".", "B", "L", "U", "E">>, <<"c", "r", "y", "p", "t", "o", "0", "1", ".", "a">>>> >>

\* an image that stores the green channel of crypto01 first and the red channel of
\* crypto00 second: the ranks start with (crypto00.red, crypto00.G)
C14_Witness ==
    /\ HasSortedLayers
    /\ Keys(LayersOf(call.before, call.args.image))[1] = <<"c", "r", "y", "p", "t", "o", "0", "1", ".", "g", "r", "e", "e", "n">>
    /\ Keys(LayersOf(call.before, call.args.image))[2] = <<"c", "r", "y", "p", "t", "o", "0", "0", ".", "r", "e", "d">>
    /\ Len(call.out.locals.layers) = 8
    /\ RankPairs(call.out.locals.layers)[1] = <<<<"c", "r", "y", "p", "t", "o", "0", "0", ".", "r", "e", "d">>, <<"c", "r", "y", "p", "t", "o", "0", "0", ".", "G">>>>
    /\ RankPairs(call.out.locals.layers)[4] = <<<<"c", "r", "y", "p", "t", "o", "0", "1", ".", "B", "L", "U", "E">>, <<"c", "r", "y", "p", "t", "o", "0", "1", ".", "a">>>>
    /\ call.out.status = "ok"

\* the decoder ended, having been given an image
DecodedImage == Done("decoder") /\ call.args.image # None /\ call.args.image.kind = "Image"

\* the candidates: the values of the metadata entries with a key of the form of a
\* cryptomatte name, those equal to the requested name if one is requested
Candidates ==
    CryptomatteNames(MetadataOf(call.before, call.args.image), call.args.cryptomatte)

\* the decoder raised and built nothing but the copy that require_image makes
FailedEarly ==
    /\ call.out.status # "ok" /\ call.out.value = None
    /\ heap.arrays = call.before.arrays
    /\ Len(heap.images) = Len(call.before.images) + 1

\* C15: when exactly one candidate remains it is the cryptomatte that is selected;
\* when a name is requested but not found, or when more than one candidate remains,
\* the decoder fails and returns no image, with the same kind of error in both
\* cases: the kind that more than one candidate gets.
C15_SelectionError ==
    DecodedImage =>
        /\ Len(Candidates) = 1 => call.out.locals.names = Candidates
        /\ (Len(Candidates) > 1 \/ (call.args.cryptomatte # None /\ Candidates = <<>>)) =>
              /\ FailedEarly
              /\ call.out.status
                    = DecoderNames(call.before, call.args.image, call.args,
                                   <<Candidates, Candidates>>).status

\* the name "other" is requested of metadata that has "crypto" alone: RuntimeError,
\* where two candidates get ValueError
C15_NotFoundIsRuntimeError ==
    /\ DecodedImage
    /\ call.args.cryptomatte = Str(<<"o", "t", "h", "e", "r">>)
    /\ Len(CryptomatteNames(MetadataOf(call.before, call.args.image), None)) = 1
    /\ Candidates = <<>>
    /\ call.out.status = "RuntimeError"
    /\ DecoderNames(call.before, call.args.image, call.args, <<Candidates, Candidates>>).status
          = "ValueError"

\* the image has no layer of the one candidate
NoRankLayers ==
    /\ Len(Candidates) = 1
    /\ \A i \in DOMAIN LayersOf(call.before, call.args.image) :
          ~IsRankLayer(LayersOf(call.before, call.args.image)[i][1].s, Candidates[1][2].s)

\* C16: the decoder fails when no cryptomatte of the metadata matches, and fails
\* when one is selected but the image has no rank layers for it; the second failure
\* is of another kind than the first, both happen before any output is built, and
\* both are the same in regular and in clown mode.
C16_LookupAndDataErrors ==
    DecodedImage =>
        /\ Candidates = <<>> =>
              /\ FailedEarly
              /\ call.out.status = DecoderNames(call.before, call.args.image,
                                                [call.args EXCEPT !.clown = None], <<>>).status
        /\ NoRankLayers =>
              /\ FailedEarly
              /\ call.out.status # DecoderNames(call.before, call.args.image, call.args, <<>>).status

\* an image whose only layer is "C" and metadata with the one cryptomatte "crypto":
\* RuntimeError, as for no cryptomatte at all
C16_SameKind ==
    /\ DecodedImage
    /\ NoRankLayers
    /\ Keys(LayersOf(call.before, call.args.image)) = <<<<"C">>>>
    /\ FailedEarly
    /\ call.out.status = "RuntimeError"
    /\ DecoderNames(call.before, call.args.image, call.args, <<>>).status = "RuntimeError"

\* the whole name is the name of the cryptomatte, two digits, "." and a channel
IsWholeRankName(layer, name) ==
    /\ Len(layer) > Len(name) + 3
    /\ StrLower(SubSeq(layer, 1, Len(name))) = StrLower(name)
    /\ IsDigit(layer[Len(name) + 1]) /\ IsDigit(layer[Len(name) + 2])
    /\ layer[Len(name) + 3] = "."
    /\ StrLower(SubSeq(layer, Len(name) + 4, Len(layer)))
          \in {<<"r", "e", "d">>, <<"g", "r", "e", "e", "n">>, <<"b", "l", "u", "e">>, <<"a", "l", "p", "h", "a">>, <<"r">>, <<"g">>, <<"b">>, <<"a">>}

\* the heap before the call without the layers of the image that have no such name
\* but the decoder's pattern finds
WithoutPartNames ==
    [call.before EXCEPT !.dicts[call.before.images[call.args.image.ref].layers] =
        SelectSeq(@, LAMBDA entry : \/ IsWholeRankName(entry[1].s, Candidates[1][2].s)
                                    \/ ~IsRankLayer(entry[1].s, Candidates[1][2].s))]

\* the status and the samples that a decode ended with
Decoded(result) ==
    <<result.status,
      IF result.status = "ok" THEN DataOf(result.heap, LayersOf(result.heap, result.value)[1][2])
      ELSE <<>> >>

\* C17: the decoder collects as rank layers only layers whose whole name is the name
\* of the cryptomatte, two digits, "." and one of red, green, blue, alpha, r, g, b, a
\* in any case; a layer whose name only starts like that ("crypto00.rx",
\* "crypto00.red.extra") or that is of another cryptomatte is not collected, and the
\* decode ends as it does for the image without such layers.
C17_WholeNamesOnly ==
    (DecodedImage /\ Len(Candidates) = 1) =>
        /\ \A i \in DOMAIN call.out.locals.layers :
              IsWholeRankName(call.out.locals.layers[i], Candidates[1][2].s)
        /\ Decoded([status |-> call.out.status, value |-> call.out.value, heap |-> heap])
              = Decoded(Decoder(WithoutPartNames, call.args))

\* an image with the rank crypto00.r, crypto00.g and a layer crypto00.rx: the layer
\* is collected and sorted raises TypeError, where the rank alone decodes
C17_PartNameCollected ==
    /\ DecodedImage /\ Len(Candidates) = 1
    /\ Keys(LayersOf(call.before, call.args.image)) = <<<<"c", "r", "y", "p", "t", "o", "0", "0", ".", "r">>, <<"c", "r", "y", "p", "t", "o", "0", "0", ".", "g">>, <<"c", "r", "y", "p", "t", "o", "0", "0", ".", "r", "x">>>>
    /\ call.out.locals.layers = <<<<"c", "r", "y", "p", "t", "o", "0", "0", ".", "r">>, <<"c", "r", "y", "p", "t", "o", "0", "0", ".", "g">>, <<"c", "r", "y", "p", "t", "o", "0", "0", ".", "r", "x">>>>
    /\ call.out.status = "TypeError"
    /\ Decoder(WithoutPartNames, call.args).status = "ok"

HexDigits == {"0", "1", "2", "3", "4", "5", "6", "7", "8", "9",
              "a", "b", "c", "d", "e", "f", "A", "B", "C", "D", "E", "F"}

\* the key is cryptomatte/<id>/name with an id of seven hexadecimal digits
IsHexNameKey(key) ==
    /\ Len(key) = 24
    /\ SubSeq(key, 1, 12) = <<"c", "r", "y", "p", "t", "o", "m", "a", "t", "t", "e", "/">>
    /\ \A i \in 13..19 : key[i] \in HexDigits
    /\ SubSeq(key, 20, 24) = <<"/", "n", "a", "m", "e">>

\* the heap before the call without the metadata entries of the image that have no
\* such key but the decoder's pattern finds
WithoutOtherKeys ==
    [call.before EXCEPT !.dicts[call.before.images[call.args.image.ref].metadata] =
        SelectSeq(@, LAMBDA entry : IsHexNameKey(entry[1].s) \/ ~IsNameKey(entry[1].s))]

\* C18: the decoder takes a metadata entry for the name of a cryptomatte only if its
\* key is cryptomatte/<id>/name with an id of seven hexadecimal digits; entries with
\* any other key, such as an id of seven other characters or an id of another
\* length, are no candidates, and the decode ends as it does without them.
C18_HexKeysOnly ==
    DecodedImage =>
        /\ \A i \in DOMAIN Candidates : IsHexNameKey(Candidates[i][1].s)
        /\ Decoded([status |-> call.out.status, value |-> call.out.value, heap |-> heap])
              = Decoded(Decoder(WithoutOtherKeys, call.args))

\* metadata with cryptomatte/abc1234/name and cryptomatte/zzzzzzz/name: both are
\* candidates and the decoder asks for a choice, where the first alone decodes
C18_OtherIdIsCandidate ==
    /\ DecodedImage
    /\ call.args.cryptomatte = None
    /\ Keys(MetadataOf(call.before, call.args.image))
          = <<<<"c", "r", "y", "p", "t", "o", "m", "a", "t", "t", "e", "/", "a", "b", "c", "1", "2", "3", "4", "/", "n", "a", "m", "e">>, <<"c", "r", "y", "p", "t", "o", "m", "a", "t", "t", "e", "/", "z", "z", "z", "z", "z", "z", "z", "/", "n", "a", "m", "e">>>>
    /\ Len(Candidates) = 2
    /\ call.out.status = "ValueError"
    /\ Decoder(WithoutOtherKeys, call.args).status = "ok"

(***************************************************************************)
(* channels: imagecat/data.py lines 322-367.  The OpenEXR loader and       *)
(* saver: imagecat/io.py lines 49-100 and 156-193.  A file is a record     *)
(* [height, width, channels], channels a sequence of <<name, pixel type>>; *)
(* an array that is read from or written to a file has a dtype.            *)
(***************************************************************************)
Texts(chars) == [i \in DOMAIN chars |-> <<chars[i]>>]

\* channels(role); line 366 evaluates self, a name bound nowhere in the module
Channels(role) ==
    CASE role = Role("RGBA") -> Ok(Texts(<<"R", "G", "B", "A">>))
      [] role = Role("RGB") -> Ok(Texts(<<"R", "G", "B">>))
      [] role = Role("REDGREEN") -> Ok(Texts(<<"R", "G">>))
      [] role = Role("GREENBLUE") -> Ok(Texts(<<"G", "B">>))
      [] role = Role("REDBLUE") -> Ok(Texts(<<"R", "B">>))
      [] role = Role("RED") -> Ok(Texts(<<"R">>))
      [] role = Role("GREEN") -> Ok(Texts(<<"G">>))
      [] role = Role("BLUE") -> Ok(Texts(<<"B">>))
      [] role = Role("ALPHA") -> Ok(Texts(<<"A">>))
      [] role = Role("MATTE") -> Ok(Texts(<<"M">>))
      [] role = Role("LUMINANCE") -> Ok(Texts(<<"Y">>))
      [] role = Role("DEPTH") -> Ok(Texts(<<"Z">>))
      [] role = Role("UV") -> Ok(Texts(<<"U", "V">>))
      [] role \in {Role("XYZ"), Role("VELOCITY"), Role("NORMAL")} -> Ok(Texts(<<"X", "Y", "Z">>))
      [] role = Role("NONE") -> Raise("NameError")
      [] OTHER -> Raise("RuntimeError")

\* os.path.splitext(path)[1].lower() of a path without directories
Extension(path) ==
    IF (\A i \in DOMAIN path : path[i] # ".") \/ LastDot(path) = 1 THEN <<>>
    ELSE StrLower(SubSeq(path, LastDot(path), Len(path)))

Typed(array, dtype) == [shape |-> array.shape, px |-> array.px, dtype |-> dtype]

\* lines 92-97: the dtype of the array read for a channel
DtypeOf(type) ==
    CASE type = "HALF" -> "float16" [] type = "FLOAT" -> "float32" [] type = "INT" -> "int32"

\* lines 178-183: the pixel type written for an array, "" for the else branch
PixelTypeOf(dtype) ==
    CASE dtype = "float16" -> "HALF" [] dtype = "float32" -> "FLOAT" [] dtype = "int32" -> "INT"
      [] OTHER -> ""

\* lines 91-98: a Layer of role NONE and one channel for every channel of the file
LoadedLayers(file) ==
    [i \in DOMAIN file.channels |->
        LayerSpec(file.channels[i][1],
                  Typed(Ramp(<<file.height, file.width, 1>>, i), DtypeOf(file.channels[i][2])),
                  "NONE")]

\* lines 86-87: the header as metadata
HeaderMetadata == << <<Str(<<"c", "h", "a", "n", "n", "e", "l", "s">>), List>>,
                     <<Str(<<"d", "a", "t", "a", "W", "i", "n", "d", "o", "w">>), List>> >>

\* line 100: Image(layers=layers, metadata=metadata)
LoadedImage(built, metadata) ==
    ImageInit([built[1] EXCEPT !.dicts = @ \o <<built[2], metadata>>],
              DictRef(Len(built[1].dicts) + 1), DictRef(Len(built[1].dicts) + 2))

\* openexr_loader(task, path, layers) of a file, the module OpenEXR imported or not
OpenexrLoader(h, path, layers, file, imported) ==
    IF ~imported THEN HOk(h, None)
    ELSE IF Extension(path) # <<".", "e", "x", "r">> THEN HOk(h, None)
    ELSE IF layers # Str(<<"*">>) THEN HRaise(h, "NotImplementedError")
    ELSE LoadedImage(AddLayers(h, LoadedLayers(file), <<>>), HeaderMetadata)

\* line 177
ChannelName(layer, channel) == IF channel # <<>> THEN layer \o <<".">> \o channel ELSE layer

\* lines 176-186 for one layer: the entries it sets in exr_channels and exr_pixels,
\* <<channel name, [type, layer, index]>>
LayerChannels(name, array, channels) ==
    IF channels.status # "ok" THEN Raise(channels.status)
    ELSE IF channels.value # <<>> /\ PixelTypeOf(array.dtype) = "" THEN Raise("ValueError")
    ELSE IF Len(channels.value) > array.shape[3] THEN Raise("IndexError")
    ELSE Ok([i \in DOMAIN channels.value |->
                <<Str(ChannelName(name, channels.value[i])),
                  [type |-> PixelTypeOf(array.dtype), layer |-> name, index |-> i - 1]>>])

RECURSIVE DictUpdate(_, _)
DictUpdate(entries, new) ==
    IF new = <<>> THEN entries
    ELSE DictUpdate(DictSet(entries, new[1][1], new[1][2]), Tail(new))

\* lines 172-186: the loop over the layers, shape being <<>> while it is unbound
RECURSIVE SaveLayers(_, _, _, _, _)
SaveLayers(h, image, names, entries, shape) ==
    IF names = <<>> THEN [status |-> "ok", value |-> entries, shape |-> shape]
    ELSE IF ~DictHas(LayersOf(h, image), Str(names[1]))
      THEN [status |-> "KeyError", value |-> entries, shape |-> shape]
    ELSE LET layer == DictGet(LayersOf(h, image), Str(names[1]))
             set == LayerChannels(names[1], DataOf(h, layer),
                                  Channels(Role(h.layers[layer.ref].role)))
         IN  IF set.status # "ok"
             THEN [status |-> set.status, value |-> entries, shape |-> DataOf(h, layer).shape]
             ELSE SaveLayers(h, image, Tail(names), DictUpdate(entries, set.value),
                             DataOf(h, layer).shape)

NoFile == [written |-> FALSE]

\* lines 188-193: the file that is written
Written(h, saved) ==
    IF saved.status # "ok" THEN Returned(HRaise(h, saved.status), NoFile)
    ELSE IF saved.shape = <<>> THEN Returned(HRaise(h, "UnboundLocalError"), NoFile)
    ELSE Returned(HOk(h, Bool(TRUE)),
                  [written |-> TRUE, width |-> saved.shape[2], height |-> saved.shape[1],
                   channels |-> saved.value])

\* openexr_saver(task, image, layers, path), the module OpenEXR imported or not
OpenexrSaver(h, image, layers, path, imported) ==
    IF ~imported THEN Returned(HOk(h, Bool(FALSE)), NoFile)
    ELSE IF Extension(path) # <<".", "e", "x", "r">> THEN Returned(HOk(h, Bool(FALSE)), NoFile)
    ELSE Written(h, SaveLayers(h, image, layers, <<>>, <<>>))

Paths == {<<"a", ".", "e", "x", "r">>, <<"a", ".", "E", "X", "R">>, <<"a", ".", "p", "n", "g">>, <<"e", "x", "r">>}

ExrFile(channels) == [height |-> 1, width |-> 2, channels |-> channels]

ExrFiles ==
    { ExrFile(<<>>),
      ExrFile(<< <<<<"R">>, "HALF">> >>),
      ExrFile(<< <<<<"C", ".", "R">>, "FLOAT">>, <<<<"C", ".", "G">>, "FLOAT">>, <<<<"C", ".", "B">>, "FLOAT">> >>),
      ExrFile(<< <<<<"Z">>, "INT">>, <<<<"A">>, "HALF">> >>) }

Dtypes == {"float16", "float32", "int32", "float64"}

ChannelsScenarios == { Scenario(EmptyHeap, "channels", [role |-> role]) : role \in RoleArgs }

LoaderScenarios ==
    { Scenario(EmptyHeap, "openexr_loader",
               [path |-> path, layers |-> layers, file |-> file, imported |-> imported]) :
        path \in Paths, layers \in {Str(<<"*">>), Str(<<"C">>)}, file \in ExrFiles,
        imported \in BOOLEAN }

\* the number of channels of a new layer of the role
ChannelsFor(role) == IF Depth(role).defined THEN Depth(role).n ELSE 1

\* images of one layer C of every role and dtype, of the layers C and A, and the
\* images the loader makes of the files
SaverHeaps ==
    { WithImage(EmptyHeap, <<LayerSpec(<<"C">>, Typed(Ramp(<<1, 2, ChannelsFor(role)>>, 0), dtype), role)>>, <<>>) :
        role \in Roles, dtype \in Dtypes }
    \cup { WithImage(EmptyHeap, <<LayerSpec(<<"C">>, Typed(Ramp(<<1, 2, 3>>, 0), dtype), "RGB"),
                                  LayerSpec(<<"A">>, Typed(Ramp(<<1, 2, 1>>, 0), "float16"), "ALPHA")>>, <<>>) :
             dtype \in Dtypes }
    \cup { OpenexrLoader(EmptyHeap, <<"a", ".", "e", "x", "r">>, Str(<<"*">>), file, TRUE).heap : file \in ExrFiles }

SaverScenarios ==
    { Scenario(h, "openexr_saver",
               [image |-> ImageRef(1), layers |-> layers, path |-> path, imported |-> imported]) :
        h \in SaverHeaps,
        layers \in {<<>>, <<<<"C">>>>, <<<<"Z">>>>, <<<<"C">>, <<"A">>>>, <<<<"C", ".", "R">>, <<"C", ".", "G">>, <<"C", ".", "B">>>>},
        path \in Paths, imported \in BOOLEAN }

ExrInit ==
    \E sc \in ChannelsScenarios \cup LoaderScenarios \cup SaverScenarios :
        heap = sc[1] /\ call = sc[2]

\* imagecat.data.channels(role)
ChannelsCall ==
    /\ Called("channels")
    /\ call' = [call EXCEPT !.out = Channels(call.args.role)]
    /\ UNCHANGED heap

\* openexr_loader(task, path, layers)
OpenexrLoaderCall ==
    /\ Called("openexr_loader")
    /\ Finish(OpenexrLoader(heap, call.args.path, call.args.layers, call.args.file,
                            call.args.imported))

\* openexr_saver(task, image, layers, path)
OpenexrSaverCall ==
    /\ Called("openexr_saver")
    /\ FinishWith(OpenexrSaver(heap, call.args.image, call.args.layers, call.args.path,
                               call.args.imported))

ExrNext == ChannelsCall \/ OpenexrLoaderCall \/ OpenexrSaverCall

SpecExr == ExrInit /\ [][ExrNext]_vars

\* the layers the saver is asked to write exist and have a dtype it can write
CanSave ==
    /\ call.args.imported /\ Extension(call.args.path) = <<".", "e", "x", "r">>
    /\ call.args.layers # <<>>
    /\ \A i \in DOMAIN call.args.layers :
          /\ DictHas(LayersOf(call.before, call.args.image), Str(call.args.layers[i]))
          /\ PixelTypeOf(DataOf(call.before, DictGet(LayersOf(call.before, call.args.image),
                                                     Str(call.args.layers[i]))).dtype) # ""

\* C19: channels(role) returns a list of channel names for every Role, NONE
\* included, and for a role with a depth the list has depth(role) names; so the
\* OpenEXR saver writes the channels of every layer it is asked to write, also of an
\* image that the OpenEXR loader has made.
C19_ChannelsOfEveryRole ==
    /\ (Done("channels") /\ call.args.role \in {Role(r) : r \in Roles}) =>
          /\ call.out.status = "ok"
          /\ Depth(call.args.role.name).defined =>
                Len(call.out.value) = Depth(call.args.role.name).n
    /\ (Done("openexr_saver") /\ CanSave) =>
          /\ call.out.status = "ok" /\ call.out.value = Bool(TRUE)
          /\ call.out.locals.written
          /\ \A i \in DOMAIN call.args.layers :
                \E j \in DOMAIN call.out.locals.channels :
                    call.out.locals.channels[j][2].layer = call.args.layers[i]

\* the saver is asked to write the three layers that the loader has made of a file
\* with the channels C.R, C.G and C.B, and raises NameError
C19_LoadedImageNotSaved ==
    /\ Done("openexr_saver") /\ CanSave
    /\ heap = OpenexrLoader(EmptyHeap, <<"a", ".", "e", "x", "r">>, Str(<<"*">>),
                            ExrFile(<< <<<<"C", ".", "R">>, "FLOAT">>, <<<<"C", ".", "G">>, "FLOAT">>, <<<<"C", ".", "B">>, "FLOAT">> >>),
                            TRUE).heap
    /\ call.args.layers = <<<<"C", ".", "R">>, <<"C", ".", "G">>, <<"C", ".", "B">>>>
    /\ \A i \in DOMAIN heap.layers : heap.layers[i].role = "NONE"
    /\ Channels(Role("NONE")).status = "NameError"
    /\ call.out.status = "NameError"
    /\ ~call.out.locals.written

(***************************************************************************)
(* channels_to_layers: imagecat/util.py lines 43-89.  The result is a      *)
(* sequence of <<layer, components, role>>, components a sequence of       *)
(* <<channel, component>>, role one of imagecat.Role (NONE, RGB).          *)
(***************************************************************************)
HasDot(channel) == \E i \in DOMAIN channel : channel[i] = "."

\* lines 44-46: channel.rsplit(".", 1), with an empty layer for a name without "."
RSplit(channel) ==
    IF HasDot(channel)
    THEN <<SubSeq(channel, 1, LastDot(channel) - 1), SubSeq(channel, LastDot(channel) + 1, Len(channel))>>
    ELSE <<<<>>, channel>>

\* lines 51-52: groups[layer].append((channel, component))
GroupAppend(groups, layer, entry) ==
    IF \E i \in DOMAIN groups : groups[i][1] = layer
    THEN [i \in DOMAIN groups |->
            IF groups[i][1] = layer THEN <<layer, Append(groups[i][2], entry)>> ELSE groups[i]]
    ELSE Append(groups, <<layer, <<entry>> >>)

\* lines 50-53: the groups in the order in which their layers first appear
RECURSIVE Groups(_, _)
Groups(channels, groups) ==
    IF channels = <<>> THEN groups
    ELSE Groups(Tail(channels),
                GroupAppend(groups, RSplit(channels[1])[1], <<channels[1], RSplit(channels[1])[2]>>))

\* lines 71 and 81
CiComponents(components) == [i \in DOMAIN components |-> StrLower(components[i][2])]

Collections == <<<<"r", "g", "b">>, <<"h", "s", "v">>, <<"h", "s", "b">>, <<"x", "y">>, <<"x", "y", "z">>, <<"u", "v">>, <<"u", "v", "w">>>>

\* line 73: sorted(ci_components) == sorted(collection), the letters of a collection
\* being distinct
SameSorted(ci, collection) ==
    /\ Len(ci) = Len(collection)
    /\ \A i \in DOMAIN collection : \E j \in DOMAIN ci : ci[j] = <<collection[i]>>

\* ci_components.index(component)
IndexOf(ci, component) == CHOOSE j \in DOMAIN ci : ci[j] = component /\ \A k \in 1..(j - 1) : ci[k] # component

\* lines 72-74 from collection number n on
RECURSIVE OrganizeFrom(_, _, _)
OrganizeFrom(components, ci, n) ==
    IF n > Len(Collections) THEN components
    ELSE IF SameSorted(ci, Collections[n])
      THEN OrganizeFrom([i \in DOMAIN Collections[n] |-> components[IndexOf(ci, <<Collections[n][i]>>)]],
                        ci, n + 1)
    ELSE OrganizeFrom(components, ci, n + 1)

\* lines 72-74 without the reordering
OrganizeKept(components) == components

\* lines 69-75: the components of a layer in the order of the collection they make up
Organize(components) == OrganizeFrom(components, CiComponents(components), 1)

\* lines 79-85
Categorize(components) ==
    IF CiComponents(components) = <<<<"r">>, <<"g">>, <<"b">>>> THEN "RGB" ELSE "NONE"

\* channels_to_layers(channels)
ChannelsToLayers(channels) ==
    [i \in DOMAIN Groups(channels, <<>>) |->
        <<Groups(channels, <<>>)[i][1], Organize(Groups(channels, <<>>)[i][2]),
          Categorize(Organize(Groups(channels, <<>>)[i][2]))>>]

MaxChannelNames == 4

ChannelNames ==
    {<<"C", ".", "r">>, <<"C", ".", "G">>, <<"C", ".", "b">>, <<"C", ".", "a">>, <<"r">>, <<"g">>, <<"B">>, <<"a", ".", "b", ".", "r">>, <<"A", ".", "y">>, <<"A", ".", "x">>}

\* sequences of distinct channel names
ChannelLists ==
    UNION { {s \in [1..n -> ChannelNames] : \A i, j \in 1..n : i # j => s[i] # s[j]} :
            n \in 0..MaxChannelNames }

LayersInit ==
    \E channels \in ChannelLists :
        /\ heap = EmptyHeap
        /\ call = Scenario(EmptyHeap, "channels_to_layers", [channels |-> channels])[2]

\* channels_to_layers(channels)
ChannelsToLayersCall ==
    /\ Called("channels_to_layers")
    /\ call' = [call EXCEPT !.out = Ok(ChannelsToLayers(call.args.channels))]
    /\ UNCHANGED heap

LayersNext == ChannelsToLayersCall

SpecLayers == LayersInit /\ [][LayersNext]_vars

\* the channel is the layer, a "." and a component without ".", or it has no "." and
\* the layer is empty
IsSplit(channel, layer, component) ==
    /\ ~HasDot(component)
    /\ \/ channel = layer \o <<".">> \o component
       \/ ~HasDot(channel) /\ layer = <<>> /\ component = channel

\* the places <<group, position>> of the result at which the channel stands
PlacesOf(channel) ==
    { gk \in UNION { {<<g, k>> : k \in DOMAIN call.out.value[g][2]} : g \in DOMAIN call.out.value } :
        call.out.value[gk[1]][2][gk[2]][1] = channel }

\* the components of the channels of the input that belong to the layer
ComponentsOf(layer) ==
    { StrLower(SubSeq(call.args.channels[i], Len(layer) + (IF HasDot(call.args.channels[i]) THEN 2 ELSE 1),
                      Len(call.args.channels[i]))) :
        i \in { j \in DOMAIN call.args.channels :
                  \E component \in {SubSeq(call.args.channels[j], n, Len(call.args.channels[j])) :
                                      n \in 1..(Len(call.args.channels[j]) + 1)} :
                      IsSplit(call.args.channels[j], layer, component) } }

\* C20: channels_to_layers partitions the channel names: every name stands at exactly
\* one place of exactly one group, every group holds only names of the input, and a
\* group holds the names with the same text before the last "." (the empty text for
\* a name without "."), no two groups having the same layer.  A group whose
\* components are r, g and b in any order and case comes out in the order r, g, b
\* with the role RGB and three components; every other group has the role NONE.
C20_ChannelsPartitioned ==
    Done("channels_to_layers") =>
        /\ call.out.status = "ok"
        /\ \A i \in DOMAIN call.args.channels : Cardinality(PlacesOf(call.args.channels[i])) = 1
        /\ \A g, h \in DOMAIN call.out.value : call.out.value[g][1] = call.out.value[h][1] => g = h
        /\ \A g \in DOMAIN call.out.value :
              /\ call.out.value[g][2] # <<>>
              /\ \A k \in DOMAIN call.out.value[g][2] :
                    /\ \E i \in DOMAIN call.args.channels :
                          call.args.channels[i] = call.out.value[g][2][k][1]
                    /\ IsSplit(call.out.value[g][2][k][1], call.out.value[g][1],
                               call.out.value[g][2][k][2])
              /\ IF ComponentsOf(call.out.value[g][1]) = {<<"r">>, <<"g">>, <<"b">>}
                       /\ Len(call.out.value[g][2]) = 3
                 THEN /\ call.out.value[g][3] = "RGB"
                      /\ CiComponents(call.out.value[g][2]) = <<<<"r">>, <<"g">>, <<"b">>>>
                 ELSE call.out.value[g][3] = "NONE"

\* the channels C.b, C.G, C.r and a.b.r make the layer C with the role RGB, in the
\* order r, G, b, and the layer a.b with the role NONE
C20_Witness ==
    /\ Done("channels_to_layers")
    /\ call.args.channels = <<<<"C", ".", "b">>, <<"a", ".", "b", ".", "r">>, <<"C", ".", "G">>, <<"C", ".", "r">>>>
    /\ call.out.value =
          << <<<<"C">>, << <<<<"C", ".", "r">>, <<"r">>>>, <<<<"C", ".", "G">>, <<"G">>>>, <<<<"C", ".", "b">>, <<"b">>>> >>, "RGB">>,
             <<<<"a", ".", "b">>, << <<<<"a", ".", "b", ".", "r">>, <<"r">>>> >>, "NONE">> >>

(***************************************************************************)
(* merge: imagecat/operator/__init__.py lines 264-301.  The inputs are a   *)
(* dict, a sequence of <<name, values>> in the order of insertion, values  *)
(* being the sequence of what is connected to the input of that name.      *)
(***************************************************************************)
\* line 295 without sorted: the inputs in the order of insertion
StoredInputs(inputs) == inputs

\* line 295: sorted(inputs.keys())
SortedInputs(inputs) == Sorted(inputs, LAMBDA a, b : StrLess(a[1], b[1]))

\* lines 295-298: the images among the values of the inputs, input by input
RECURSIVE ImagesOf(_)
ImagesOf(inputs) ==
    IF inputs = <<>> THEN <<>>
    ELSE SelectSeq(inputs[1][2], LAMBDA value : value.kind = "Image") \o ImagesOf(Tail(inputs))

\* line 299 for the images in turn: output.layers.update(image.layers)
RECURSIVE MergeLayers(_, _, _)
MergeLayers(h, output, images) ==
    IF images = <<>> THEN HOk(h, output)
    ELSE MergeLayers([h EXCEPT !.dicts[h.images[output.ref].layers] =
                                    DictUpdate(@, LayersOf(h, images[1]))],
                     output, Tail(images))

\* lines 294-301, made being the outcome of Image()
MergeInto(made, images) == MergeLayers(made.heap, made.value, images)

\* merge(graph, name, inputs)
Merge(h, inputs) == MergeInto(ImageInit(h, None, None), ImagesOf(SortedInputs(inputs)))

\* three images: C and A of two rows and one column, C of one row and two columns,
\* C and B of two rows and one column
MergeHeap ==
    WithImages(EmptyHeap,
        << <<LayerSpec(<<"C">>, Ramp(<<2, 1, 1>>, 0), "NONE"),
             LayerSpec(<<"A">>, Fill(<<2, 1, 1>>, Half), "ALPHA")>>,
           <<LayerSpec(<<"C">>, Ramp(<<1, 2, 1>>, 10), "NONE")>>,
           <<LayerSpec(<<"C">>, Ramp(<<2, 1, 3>>, 20), "RGB"),
             LayerSpec(<<"B">>, Ramp(<<2, 1, 1>>, 30), "NONE")>> >>)

MaxMerged == 2

MergeValues == {ImageRef(1), ImageRef(2), ImageRef(3), None}

\* what is connected to one input
MergeLists == UNION { [1..n -> MergeValues] : n \in 0..MaxMerged }

\* inputs named image1 and image2, inserted in either order
MergeInputs ==
    UNION { { << <<<<"i", "m", "a", "g", "e", "1">>, a>>, <<<<"i", "m", "a", "g", "e", "2">>, b>> >>, << <<<<"i", "m", "a", "g", "e", "2">>, b>>, <<<<"i", "m", "a", "g", "e", "1">>, a>> >> } :
            a, b \in MergeLists }

MergeInit ==
    \E inputs \in MergeInputs :
        heap = MergeHeap /\ call = Scenario(MergeHeap, "merge", [inputs |-> inputs])[2]

MergeCall ==
    /\ Called("merge")
    /\ Finish(Merge(heap, call.args.inputs))

MergeNext == MergeCall

SpecMerge == MergeInit /\ [][MergeNext]_vars

\* the images among the inputs of the call
MergeArgs ==
    { call.args.inputs[p[1]][2][p[2]] : p \in
        { ik \in (DOMAIN call.args.inputs) \X (1..MaxMerged) :
            /\ ik[2] \in DOMAIN call.args.inputs[ik[1]][2]
            /\ call.args.inputs[ik[1]][2][ik[2]].kind = "Image" } }

\* C21: every Image that merge returns has layers of one resolution, and merge of
\* images of different resolutions fails with ValueError and returns no Image.
C21_MergedResolution ==
    Done("merge") =>
        /\ call.out.status = "ok" =>
              \A i, j \in DOMAIN LayersOf(heap, call.out.value) :
                  Resolution(heap, LayersOf(heap, call.out.value)[i][2])
                    = Resolution(heap, LayersOf(heap, call.out.value)[j][2])
        /\ (\E a, b \in MergeArgs :
              Resolution(call.before, LayersOf(call.before, a)[1][2])
                # Resolution(call.before, LayersOf(call.before, b)[1][2]))
             => call.out.status = "ValueError"

\* merge of the image with C and A of two rows and of the image with C of one row
\* returns an Image whose layers C and A have different resolutions
C21_MixedResolution ==
    /\ Done("merge")
    /\ call.args.inputs = << <<<<"i", "m", "a", "g", "e", "1">>, <<ImageRef(1)>> >>, <<<<"i", "m", "a", "g", "e", "2">>, <<ImageRef(2)>> >> >>
    /\ call.out.status = "ok"
    /\ Keys(LayersOf(heap, call.out.value)) = <<<<"C">>, <<"A">>>>
    /\ Resolution(heap, LayersOf(heap, call.out.value)[1][2]) = <<1, 2>>
    /\ Resolution(heap, LayersOf(heap, call.out.value)[2][2]) = <<2, 1>>

(***************************************************************************)
(* Image.copy and Layer.copy, imagecat/data.py lines 88-109 and 205-227,   *)
(* followed by what a caller does to the copy or to the original: d[key] = *)
(* value and del d[key] on the dicts that image.layers and image.metadata  *)
(* return (lines 112-134), and layer.role = role on the attribute set at   *)
(* line 198.  call.after is the heap when the copy returned, call.edited   *)
(* the parts <<object, attribute>> a caller has altered since.             *)
(***************************************************************************)
MaxEdits == 2

\* an image with the layers C and A and the metadata k
CopyHeap == WithImage(EmptyHeap, TwoLayers, << <<Str(<<"k">>), Str(<<"v">>)>> >>)

CopyCall(op, args) ==
    [op |-> op, args |-> args, before |-> CopyHeap, out |-> Pending, after |-> CopyHeap,
     edited |-> {}, edits |-> 0]

CopyInit ==
    /\ heap = CopyHeap
    /\ call \in { CopyCall("Image.copy", [self |-> ImageRef(1), layers |-> None, metadata |-> None]) }
                \cup { CopyCall("Layer.copy", [self |-> self, data |-> None, role |-> role]) :
                         self \in {LayerRef(1), LayerRef(2)}, role \in {None, Role("MATTE")} }

\* the copy returns
Copied(result) ==
    /\ call' = [call EXCEPT !.out = [status |-> result.status, value |-> result.value],
                            !.after = result.heap]
    /\ heap' = result.heap

\* image.copy()
ImageCopyCall ==
    /\ call.op = "Image.copy" /\ call.out = Pending
    /\ Copied(ImageCopy(heap, call.args.self, call.args.layers, call.args.metadata))

\* layer.copy(role=...)
LayerCopyCall ==
    /\ call.op = "Layer.copy" /\ call.out = Pending
    /\ Copied(LayerCopy(heap, call.args.self, call.args.data, call.args.role))

\* the original and the copy
BothOf == {call.args.self, call.out.value}

\* the dict that image.layers or image.metadata returns
DictOf(h, image, attribute) ==
    IF attribute = "layers" THEN h.images[image.ref].layers ELSE h.images[image.ref].metadata

EditKeys(attribute) ==
    IF attribute = "layers" THEN {Str(<<"C">>), Str(<<"Z">>)} ELSE {Str(<<"k">>), Str(<<"z">>)}

EditValues(attribute) ==
    IF attribute = "layers" THEN {LayerRef(1), LayerRef(2)} ELSE {Str(<<"w">>)}

Edited(part) == [call EXCEPT !.edited = @ \cup {part}, !.edits = @ + 1]

\* del d[key]
DictDel(entries, key) == SelectSeq(entries, LAMBDA entry : entry[1] # key)

\* image.layers[key] = value or image.metadata[key] = value, of the original or the copy
SetItem ==
    /\ call.op = "Image.copy" /\ call.out.status = "ok" /\ call.edits < MaxEdits
    /\ \E image \in BothOf, attribute \in {"layers", "metadata"} :
          \E key \in EditKeys(attribute), value \in EditValues(attribute) :
              /\ heap' = [heap EXCEPT !.dicts[DictOf(heap, image, attribute)] = DictSet(@, key, value)]
              /\ call' = Edited(<<image, attribute>>)

\* del image.layers[key] or del image.metadata[key], of the original or the copy
DelItem ==
    /\ call.op = "Image.copy" /\ call.out.status = "ok" /\ call.edits < MaxEdits
    /\ \E image \in BothOf, attribute \in {"layers", "metadata"} :
          \E key \in EditKeys(attribute) :
              /\ DictHas(heap.dicts[DictOf(heap, image, attribute)], key)
              /\ heap' = [heap EXCEPT !.dicts[DictOf(heap, image, attribute)] = DictDel(@, key)]
              /\ call' = Edited(<<image, attribute>>)

\* layer.role = role, of the original or the copy
SetRole ==
    /\ call.op = "Layer.copy" /\ call.out.status = "ok" /\ call.edits < MaxEdits
    /\ \E layer \in BothOf, role \in {"NONE", "ALPHA", "MATTE", "LUMINANCE"} :
          /\ heap' = [heap EXCEPT !.layers[layer.ref].role = role]
          /\ call' = Edited(<<layer, "role">>)

CopyNext == ImageCopyCall \/ LayerCopyCall \/ SetItem \/ DelItem \/ SetRole

SpecCopy == CopyInit /\ [][CopyNext]_vars

\* C22: image.copy() returns a new Image with the layer and metadata entries of the
\* original, and whatever entries are then set, replaced or deleted in the layers or
\* the metadata of the one, the layers and the metadata of the other stay as they
\* were; layer.copy() returns another Layer, and setting the role of the one leaves
\* the role of the other as it was.
C22_CopyIsIndependent ==
    /\ (call.op = "Image.copy" /\ call.out # Pending) =>
          /\ call.out.status = "ok"
          /\ call.out.value.kind = "Image"
          /\ call.out.value.ref \notin DOMAIN call.before.images
          /\ LayersOf(call.after, call.out.value) = LayersOf(call.before, call.args.self)
          /\ MetadataOf(call.after, call.out.value) = MetadataOf(call.before, call.args.self)
          /\ LayersOf(call.after, call.args.self) = LayersOf(call.before, call.args.self)
          /\ MetadataOf(call.after, call.args.self) = MetadataOf(call.before, call.args.self)
          /\ \A image \in BothOf, attribute \in {"layers", "metadata"} :
                <<image, attribute>> \notin call.edited =>
                    heap.dicts[DictOf(heap, image, attribute)]
                      = call.after.dicts[DictOf(call.after, image, attribute)]
    /\ (call.op = "Layer.copy" /\ call.out # Pending) =>
          /\ call.out.status = "ok"
          /\ call.out.value.kind = "Layer"
          /\ call.out.value.ref \notin DOMAIN call.before.layers
          /\ call.after.layers[call.args.self.ref] = call.before.layers[call.args.self.ref]
          /\ \A layer \in BothOf :
                <<layer, "role">> \notin call.edited =>
                    heap.layers[layer.ref].role = call.after.layers[layer.ref].role

\* in the copy the layer C has been deleted and a layer Z added, and the original
\* still has its layers C and A
C22_Witness ==
    /\ call.op = "Image.copy" /\ call.out # Pending
    /\ call.edits = MaxEdits
    /\ call.edited = {<<call.out.value, "layers">>}
    /\ Keys(LayersOf(heap, call.out.value)) = <<<<"A">>, <<"Z">>>>
    /\ Keys(LayersOf(heap, call.args.self)) = <<<<"C">>, <<"A">>>>

(***************************************************************************)
(* Layer, Image and merge of imagecat/__init__.py, lines 44-72, 93-114 and *)
(* 292-319.  A Layer of this module has components besides data and role,  *)
(* an Image has layers only; the default of the parameter layers of        *)
(* Image.__init__ is one dict, made when the class is defined.             *)
(***************************************************************************)
PackageImage(ref) == [kind |-> "imagecat.Image", ref |-> ref]

\* lines 57-66: the components of a Layer that is given none
DefaultComponents(channels, role) ==
    IF channels = 1 THEN <<<<>>>>
    ELSE IF channels = 3 /\ role = "RGB" THEN <<<<"r">>, <<"g">>, <<"b">>>>
    ELSE <<>>

\* Layer.__init__(data, components=None, role=None), lines 44-72
PackageLayer(h, data) ==
    IF data.kind # "ndarray" THEN HRaise(h, "ValueError")
    ELSE IF Len(h.arrays[data.ref].shape) # 3 THEN HRaise(h, "ValueError")
    ELSE IF Len(DefaultComponents(h.arrays[data.ref].shape[3],
                                  IF h.arrays[data.ref].shape[3] = 3 THEN "RGB" ELSE "NONE"))
              # h.arrays[data.ref].shape[3]
      THEN HRaise(h, "ValueError")
    ELSE HOk([h EXCEPT !.layers = Append(@,
                [data |-> data.ref,
                 role |-> IF h.arrays[data.ref].shape[3] = 3 THEN "RGB" ELSE "NONE",
                 components |-> DefaultComponents(h.arrays[data.ref].shape[3],
                                    IF h.arrays[data.ref].shape[3] = 3 THEN "RGB" ELSE "NONE")])],
             LayerRef(Len(h.layers) + 1))

\* Image.__init__(layers), lines 94-106, layers being a dict or the default
PackageImageInit(h, layers) ==
    IF ImageCheckFails(h, h.dicts[layers.ref], 1, None) THEN HRaise(h, "ValueError")
    ELSE HOk([h EXCEPT !.images = Append(@, [layers |-> layers.ref])],
             PackageImage(Len(h.images) + 1))

\* lines 313-316: the images among the values of the inputs, input by input
RECURSIVE PackageImagesOf(_)
PackageImagesOf(inputs) ==
    IF inputs = <<>> THEN <<>>
    ELSE SelectSeq(inputs[1][2], LAMBDA value : value.kind = "imagecat.Image")
           \o PackageImagesOf(Tail(inputs))

\* lines 313-319, made being the outcome of Image()
PackageMergeInto(made, images) ==
    IF made.status # "ok" THEN made ELSE MergeLayers(made.heap, made.value, images)

\* merge(name, inputs), lines 292-319, defaults being the default of Image.__init__
PackageMerge(h, defaults, inputs) ==
    PackageMergeInto(PackageImageInit(h, defaults), PackageImagesOf(SortedInputs(inputs)))

\* Layer(data=...) of a new array
PackageLayerOf(array) == PackageLayer(array.heap, array.value)

RECURSIVE AddPackageLayers(_, _, _)
AddPackageLayers(h, specs, entries) ==
    IF specs = <<>> THEN <<h, entries>>
    ELSE AddPackageLayers(PackageLayerOf(NewArray(h, specs[1].data)).heap, Tail(specs),
                          Append(entries, <<Str(specs[1].name),
                                            PackageLayerOf(NewArray(h, specs[1].data)).value>>))

\* the heap after Image({...}) of new layers
StoredPackageImage(built) ==
    PackageImageInit([built[1] EXCEPT !.dicts = Append(@, built[2])],
                     DictRef(Len(built[1].dicts) + 1)).heap

RECURSIVE WithPackageImages(_, _)
WithPackageImages(h, images) ==
    IF images = <<>> THEN h
    ELSE WithPackageImages(StoredPackageImage(AddPackageLayers(h, images[1], <<>>)), Tail(images))

\* the default of the parameter layers of Image.__init__, line 94
DefaultLayers == DictRef(Len(MergeHeap.dicts) + 1)

\* the images 1, 2, 3 of imagecat.data and, with the same layers, the images 4, 5, 6
\* of the package, after the empty default
SequenceHeap ==
    WithPackageImages([MergeHeap EXCEPT !.dicts = Append(@, <<>>)],
        << <<LayerSpec(<<"C">>, Ramp(<<2, 1, 1>>, 0), "NONE"),
             LayerSpec(<<"A">>, Fill(<<2, 1, 1>>, Half), "NONE")>>,
           <<LayerSpec(<<"C">>, Ramp(<<1, 2, 1>>, 10), "NONE")>>,
           <<LayerSpec(<<"C">>, Ramp(<<2, 1, 3>>, 20), "RGB"),
             LayerSpec(<<"B">>, Ramp(<<2, 1, 1>>, 30), "NONE")>> >>)

MaxCalls == 2

\* inputs of three images: one image, two inputs stored against their order, two
\* images at one input, an image and something else, nothing, two resolutions
InputsOf(first, second, third) ==
    { << <<<<"i", "m", "a", "g", "e", "1">>, <<first>> >> >>,
      << <<<<"i", "m", "a", "g", "e", "1">>, <<third>> >> >>,
      << <<<<"i", "m", "a", "g", "e", "2">>, <<first>> >>, <<<<"i", "m", "a", "g", "e", "1">>, <<third>> >> >>,
      << <<<<"i", "m", "a", "g", "e", "1">>, <<third, first>> >> >>,
      << <<<<"i", "m", "a", "g", "e", "1">>, <<None>> >>, <<<<"i", "m", "a", "g", "e", "2">>, <<second>> >> >>,
      << <<<<"i", "m", "a", "g", "e", "1">>, <<>> >> >>,
      << <<<<"i", "m", "a", "g", "e", "1">>, <<first>> >>, <<<<"i", "m", "a", "g", "e", "2">>, <<second>> >> >> }

SequenceInputs ==
    InputsOf(ImageRef(1), ImageRef(2), ImageRef(3))
    \cup InputsOf(PackageImage(4), PackageImage(5), PackageImage(6))
    \cup { << <<<<"i", "m", "a", "g", "e", "1">>, <<ImageRef(1), PackageImage(6)>> >> >> }

SequenceInit ==
    /\ heap = SequenceHeap
    /\ call = [op |-> "import", args |-> [inputs |-> <<>>], before |-> SequenceHeap,
               out |-> Pending, n |-> 0]

\* the call of an operation, which returns or raises
Invoked(op, inputs, result) ==
    /\ call' = [op |-> op, args |-> [inputs |-> inputs], before |-> heap,
                out |-> [status |-> result.status, value |-> result.value], n |-> call.n + 1]
    /\ heap' = result.heap

\* imagecat.merge(name, inputs)
PackageMergeCall ==
    /\ call.n < MaxCalls
    /\ \E inputs \in SequenceInputs :
          Invoked("imagecat.merge", inputs, PackageMerge(heap, DefaultLayers, inputs))

\* imagecat.Image()
PackageImageCall ==
    /\ call.n < MaxCalls
    /\ Invoked("imagecat.Image", <<>>, PackageImageInit(heap, DefaultLayers))

\* imagecat.operator.merge(graph, name, inputs)
OperatorMergeCall ==
    /\ call.n < MaxCalls
    /\ \E inputs \in SequenceInputs : Invoked("merge", inputs, Merge(heap, inputs))

SequenceNext == PackageMergeCall \/ PackageImageCall \/ OperatorMergeCall

SpecSequence == SequenceInit /\ [][SequenceNext]_vars

\* the kind of Image that the operation of the call merges
MergedKind == IF call.op = "merge" THEN "Image" ELSE "imagecat.Image"

\* the places <<input, index>> of the inputs of the call at which an Image stands
ImagePlaces ==
    { p \in (DOMAIN call.args.inputs) \X (1..MaxMerged) :
        /\ p[2] \in DOMAIN call.args.inputs[p[1]][2]
        /\ call.args.inputs[p[1]][2][p[2]].kind = MergedKind }

ImageAt(p) == call.args.inputs[p[1]][2][p[2]]

\* place p comes before place q: by the name of the input, then by the index
PlaceBefore(p, q) ==
    \/ StrLess(call.args.inputs[p[1]][1], call.args.inputs[q[1]][1])
    \/ p[1] = q[1] /\ p[2] < q[2]

\* C23: merge takes its inputs in the order of their names and, within an input, of
\* the index; the layer names of the result are the layer names of the Images among
\* the inputs, all of them and no other, and under each name the result holds the
\* Layer of the last Image in that order that has the name; what is no Image is
\* passed over.
C23_MergeOrder ==
    (call.op \in {"merge", "imagecat.merge"} /\ call.out.status = "ok") =>
        /\ \A p \in ImagePlaces : \A i \in DOMAIN LayersOf(call.before, ImageAt(p)) :
              DictHas(LayersOf(heap, call.out.value), LayersOf(call.before, ImageAt(p))[i][1])
        /\ \A j \in DOMAIN LayersOf(heap, call.out.value) :
              \E p \in ImagePlaces :
                  /\ DictHas(LayersOf(call.before, ImageAt(p)), LayersOf(heap, call.out.value)[j][1])
                  /\ DictGet(LayersOf(call.before, ImageAt(p)), LayersOf(heap, call.out.value)[j][1])
                       = LayersOf(heap, call.out.value)[j][2]
                  /\ \A q \in ImagePlaces :
                        DictHas(LayersOf(call.before, ImageAt(q)), LayersOf(heap, call.out.value)[j][1])
                          => (q = p \/ PlaceBefore(q, p))

\* the second of two calls of imagecat.merge is given the image with C and B alone,
\* and its result has the layer A of the image given to the first call
C23_LayerOfEarlierCall ==
    /\ call.op = "imagecat.merge" /\ call.n = 2 /\ call.out.status = "ok"
    /\ call.args.inputs = << <<<<"i", "m", "a", "g", "e", "1">>, <<PackageImage(6)>> >> >>
    /\ Keys(LayersOf(call.before, PackageImage(6))) = <<<<"C">>, <<"B">>>>
    /\ Keys(LayersOf(heap, call.out.value)) = <<<<"C">>, <<"A">>, <<"B">>>>
    /\ heap.images[call.out.value.ref].layers = DefaultLayers.ref

(***************************************************************************)
(* transform, imagecat/operator/util.py lines 285-365, for quarter turns   *)
(* of sources that are scaled by whole factors on a canvas that holds them *)
(***************************************************************************)
TurnedCanvas == <<14, 14, 1>>

TurnedScales == {<<One, One>>, <<Int2Rat(2), One>>, <<One, Int2Rat(3)>>, <<Int2Rat(2), Int2Rat(3)>>}

TurnedTransforms ==
    { TransformArgs(Ramp(res \o <<1>>, 0), TurnedCanvas, pivot, position, orientation, scale) :
        res \in {<<1, 3>>, <<2, 1>>, <<2, 3>>},
        pivot \in {Place(0, 0), Place(1, 0), DefaultPlace},
        position \in {Place(7, 7), Place(6, 8), DefaultPlace},
        orientation \in {0, 90, -90, 180}, scale \in TurnedScales }

TurnedInit ==
    \E args \in TurnedTransforms :
        heap = EmptyHeap /\ call = Scenario(EmptyHeap, "transform", args)[2]

TurnedNext == TransformCall

SpecTurned == TurnedInit /\ [][TurnedNext]_vars

\* the lengths of the call: pivot x and y of the source, position x and y of the target
CallLength(i) ==
    Length((call.args.pivot.items \o call.args.position.items)[i],
           IF i <= 2 THEN <<call.args.source.shape[2], call.args.source.shape[1]>>
           ELSE <<call.args.target_shape[2], call.args.target_shape[1]>>).value

\* the matrix of the call, from source coordinates <<column, row>> to those of the target
CallMatrix ==
    TransformMatrix(call.args.source.shape[1], call.args.target_shape[1],
                    CallLength(1), CallLength(2), CallLength(3), CallLength(4),
                    call.args.orientation, call.args.scale)

\* the pivot in the source, <<column, row>>: pivot y is counted from the lower edge
PivotPoint == <<CallLength(1), RSub(Int2Rat(call.args.source.shape[1]), CallLength(2))>>

\* the position in the target, <<column, row>>, counted likewise
PositionPoint == <<CallLength(3), RSub(Int2Rat(call.args.target_shape[1]), CallLength(4))>>

\* -1 for the orientation 90, 1 for -90: the change of the row for a step to the right
RowStep == IF call.args.orientation = 90 THEN -1 ELSE 1

\* C24: a positive orientation turns the source counter-clockwise about its pivot in
\* the image, whose rows grow downward: with the orientation 90 and the scale (1, 1)
\* the source point dx pixels to the right of the pivot goes to the point dx rows
\* above the place the pivot goes to, in the same column, and with the orientation
\* -90 to the point dx rows below it; so an output pixel one row further up (90) or
\* down (-90) samples the source one pixel further to the right.
C24_CounterClockwise ==
    (Done("transform") /\ call.out.status = "ok" /\ call.args.orientation \in {90, -90}
       /\ call.args.scale = <<One, One>>) =>
        /\ \A dx \in 1..3 :
              MapPoint(CallMatrix, <<RAdd(PivotPoint[1], Int2Rat(dx)), PivotPoint[2]>>)
                = <<MapPoint(CallMatrix, PivotPoint)[1],
                    RAdd(MapPoint(CallMatrix, PivotPoint)[2], Int2Rat(RowStep * dx))>>
        /\ \A rc \in DOMAIN call.out.data.px :
              <<rc[1] + RowStep, rc[2]>> \in DOMAIN call.out.data.px =>
                  call.out.data.px[<<rc[1] + RowStep, rc[2]>>][3]
                    = <<RAdd(call.out.data.px[rc][3][1], One), call.out.data.px[rc][3][2]>>

\* a source of one row and three columns, turned by 90 about its lower left corner,
\* which goes to column 7, row 7: the point one pixel to its right goes to row 6
C24_Witness ==
    /\ Done("transform") /\ call.out.status = "ok"
    /\ call.args.orientation = 90 /\ call.args.scale = <<One, One>>
    /\ call.args.source.shape = <<1, 3, 1>>
    /\ call.args.pivot = Place(0, 0) /\ call.args.position = Place(7, 7)
    /\ PivotPoint = <<Zero, One>>
    /\ MapPoint(CallMatrix, PivotPoint) = <<Int2Rat(7), Int2Rat(7)>>
    /\ MapPoint(CallMatrix, <<One, One>>) = <<Int2Rat(7), Int2Rat(6)>>
    /\ call.out.region = <<4, 7, 6, 7>>
    /\ call.out.data.px[<<2, 0>>][3] = <<One, Zero>>
    /\ call.out.data.px[<<1, 0>>][3] = <<Int2Rat(2), Zero>>

\* the corners of the source in the target, and the box around them
CallCorners == Corners(CallMatrix, call.args.source.shape[2], call.args.source.shape[1])

\* the box lies inside the canvas, a pixel or more from its edges
Unclipped ==
    /\ RLeq(One, Mins(CallCorners)[1]) /\ RLeq(One, Mins(CallCorners)[2])
    /\ RLeq(Maxs(CallCorners)[1], Int2Rat(call.args.target_shape[2] - 1))
    /\ RLeq(Maxs(CallCorners)[2], Int2Rat(call.args.target_shape[1] - 1))

\* C25: the scale is applied before the rotation, both about the pivot: with the
\* orientation 90 (or -90) and the scale (sx, sy) a source of w columns and h rows
\* that is not clipped occupies a box sy*h columns wide and sx*w rows tall, and the
\* region returned is that box rounded outward, or one pixel more on a side where
\* the rounding of a whole coordinate went outward; and for every scale and
\* orientation the pivot goes to the position.
C25_ScaleThenRotate ==
    (Done("transform") /\ call.out.status = "ok") =>
        /\ MapPoint(CallMatrix, PivotPoint) = PositionPoint
        /\ (call.args.orientation \in {90, -90} /\ Unclipped) =>
              /\ RSub(Maxs(CallCorners)[1], Mins(CallCorners)[1])
                   = RMul(call.args.scale[2], Int2Rat(call.args.source.shape[1]))
              /\ RSub(Maxs(CallCorners)[2], Mins(CallCorners)[2])
                   = RMul(call.args.scale[1], Int2Rat(call.args.source.shape[2]))
              /\ call.out.region[1] \in {RFloor(Mins(CallCorners)[2]) - 1, RFloor(Mins(CallCorners)[2])}
              /\ call.out.region[2] \in {RCeil(Maxs(CallCorners)[2]), RCeil(Maxs(CallCorners)[2]) + 1}
              /\ call.out.region[3] \in {RFloor(Mins(CallCorners)[1]) - 1, RFloor(Mins(CallCorners)[1])}
              /\ call.out.region[4] \in {RCeil(Maxs(CallCorners)[1]), RCeil(Maxs(CallCorners)[1]) + 1}
              /\ call.out.data.shape = <<call.out.region[2] - call.out.region[1],
                                         call.out.region[4] - call.out.region[3], 1>>

\* a source of three columns and one row, scaled by (2, 3) and turned by 90 about its
\* lower left corner: three columns wide and six rows tall
C25_Witness ==
    /\ Done("transform") /\ call.out.status = "ok"
    /\ call.args.orientation = 90 /\ call.args.scale = <<Int2Rat(2), Int2Rat(3)>>
    /\ call.args.source.shape = <<1, 3, 1>>
    /\ call.args.pivot = Place(0, 0) /\ call.args.position = Place(7, 7)
    /\ Unclipped
    /\ MapPoint(CallMatrix, PivotPoint) = <<Int2Rat(7), Int2Rat(7)>>
    /\ call.out.region = <<1, 7, 4, 7>>
    /\ call.out.data.shape = <<6, 3, 1>>

\* the layer names of the Images among the inputs of the call
OwnNames ==
    UNION { {LayersOf(call.before, ImageAt(p))[i][1] : i \in DOMAIN LayersOf(call.before, ImageAt(p))} :
            p \in ImagePlaces }

\* C26: imagecat.merge keeps nothing from one call to the next: whatever calls came
\* before, it returns an Image whose layer names are those of the Images among its
\* own inputs (so that calls with the same inputs give the same layer names), and
\* Image() without arguments returns an Image without layers.
C26_NothingLeftOver ==
    /\ call.op = "imagecat.merge" =>
          /\ call.out.status = "ok"
          /\ {LayersOf(heap, call.out.value)[j][1] : j \in DOMAIN LayersOf(heap, call.out.value)}
               = OwnNames
    /\ call.op = "imagecat.Image" =>
          /\ call.out.status = "ok"
          /\ LayersOf(heap, call.out.value) = <<>>

\* after imagecat.merge of the image with C and A, Image() returns an Image with the
\* layers C and A
C26_ImageWithLayers ==
    /\ call.op = "imagecat.Image" /\ call.n = 2
    /\ call.out.status = "ok"
    /\ Keys(LayersOf(heap, call.out.value)) = <<<<"C">>, <<"A">>>>
    /\ call.before.dicts[DefaultLayers.ref] = LayersOf(call.before, PackageImage(4))

\* the error of line 127, which the decoder raises when it collected no rank layer
DataError ==
    DecoderLayers(call.before, call.args.image, call.args, <<>>).status

\* the decoder collected rank layers of which one has no partner: zip of lines 131
\* and 148 leaves it out
OddRankLayers ==
    /\ DecodedImage
    /\ Len(call.out.locals.layers) % 2 = 1

\* C27: when the decoder finds at least one rank layer of the selected cryptomatte
\* but the sorted layers do not form complete (id, coverage) pairs, as when exactly
\* one layer matches, it either returns an Image or fails with the error that no
\* rank layers get, in regular and in clown mode; it fails with no other kind of
\* error.
C27_IncompletePairs ==
    OddRankLayers =>
        \/ /\ call.out.status = "ok"
           /\ call.out.value.kind = "Image"
           /\ Len(LayersOf(heap, call.out.value)) = 1
        \/ /\ call.out.status = DataError
           /\ call.out.value = None

\* the one layer "crypto00.r" in clown mode: the loop of line 131 has no pair, output
\* is not bound at line 161 and the error is none of those of lines 102-127
C27_OutputUnbound ==
    /\ OddRankLayers
    /\ Len(call.out.locals.layers) = 1
    /\ call.args.clown = Bool(TRUE)
    /\ call.out.status = "UnboundLocalError"
    /\ call.out.value = None
    /\ DataError = "RuntimeError"

\* offset or gaussian returned, having been given an image
SelectedLayers ==
    /\ call.op \in {"offset", "gaussian"} /\ call.out # Pending
    /\ call.out.status = "ok"

\* the names of the input image that the pattern of the input named layers matches
SelectedNames ==
    LoopNames(call.op, call.args, Keys(LayersOf(call.before, call.args.image)))

\* the Layer of the input image and that of the output under one name
LayerGiven(name) == DictGet(LayersOf(call.before, call.args.image), Str(name))
LayerReturned(name) == DictGet(LayersOf(heap, call.out.value), Str(name))

\* C28: offset and gaussian return a copy of the input image in which only the
\* selected layers are changed: the output has exactly the layer names of the
\* input, the layers whose names match the pattern are the outcome of the operator
\* with the role they had, and the layers whose names do not match have the same
\* data and the same role as in the input.
C28_OnlySelectedChange ==
    SelectedLayers =>
        /\ {LayersOf(heap, call.out.value)[i][1] : i \in DOMAIN LayersOf(heap, call.out.value)}
              = {LayersOf(call.before, call.args.image)[i][1] :
                    i \in DOMAIN LayersOf(call.before, call.args.image)}
        /\ \A i \in DOMAIN Keys(LayersOf(call.before, call.args.image)) :
              /\ DictHas(LayersOf(heap, call.out.value),
                         Str(Keys(LayersOf(call.before, call.args.image))[i]))
              /\ heap.layers[LayerReturned(Keys(LayersOf(call.before, call.args.image))[i]).ref].role
                    = call.before.layers[LayerGiven(Keys(LayersOf(call.before, call.args.image))[i]).ref].role
              /\ (\A k \in DOMAIN SelectedNames :
                     SelectedNames[k] # Keys(LayersOf(call.before, call.args.image))[i]) =>
                    DataOf(heap, LayerReturned(Keys(LayersOf(call.before, call.args.image))[i]))
                       = DataOf(call.before, LayerGiven(Keys(LayersOf(call.before, call.args.image))[i]))

\* offset of the image with the layers "C" and "A" with the pattern "C": the output
\* has the layer "C" alone
C28_UnselectedDropped ==
    /\ SelectedLayers
    /\ call.op = "offset"
    /\ call.args.layers = Str(<<"C">>)
    /\ Len(LayersOf(call.before, call.args.image)) = 2
    /\ Keys(LayersOf(heap, call.out.value)) = << <<"C">> >>

(***************************************************************************)
(* imagecat/__init__.py: the task functions composite, offset, scale and   *)
(* text of the package, with the helpers of imagecat/util.py they call.    *)
(* An input of a task is given or absent (None); what skimage and PIL      *)
(* compute is left uninterpreted, sample by sample.                        *)
(***************************************************************************)
\* the defaults of lines 182, 325 and 437, of line 404 and of line 435
PackagePlace == Tuple(<<Str(<<"0", ".", "5", "v", "w">>), Str(<<"0", ".", "5", "v", "h">>)>>)
PackageSize == Tuple(<<Str(<<"1", "v", "w">>), Str(<<"1", "v", "h">>)>>)
PackageFontsize == Str(<<"3", "2", "p", "x">>)

\* util.require_image, util.py lines 197-202: require_input raises RuntimeError for a
\* missing input, and the image returned is Image(layers=dict(image.layers))
PackageRequireImage(h, image) ==
    IF image = None THEN HRaise(h, "RuntimeError")
    ELSE IF image.kind # "imagecat.Image" THEN HRaise(h, "ValueError")
    ELSE PackageImageInit([h EXCEPT !.dicts = Append(@, LayersOf(h, image))],
                          DictRef(Len(h.dicts) + 1))

\* Layer.modify(data=data), lines 85-89: Layer(data, components, role) of the layer,
\* array being the new data
PackageModify(array, layer) ==
    IF Len(array.heap.layers[layer.ref].components) # array.heap.arrays[array.value.ref].shape[3]
    THEN HRaise(array.heap, "ValueError")
    ELSE HOk([array.heap EXCEPT !.layers = Append(@,
                 [data |-> array.value.ref,
                  role |-> array.heap.layers[layer.ref].role,
                  components |-> array.heap.layers[layer.ref].components])],
             LayerRef(Len(array.heap.layers) + 1))

\* scale, lines 407-409: skimage.transform.resize refuses a negative size
ScaleData(data, lengths, order) ==
    IF lengths[1].status # "ok" THEN Raise(lengths[1].status)
    ELSE IF lengths[2].status # "ok" THEN Raise(lengths[2].status)
    ELSE IF PyInt(lengths[1].value) < 0 \/ PyInt(lengths[2].value) < 0 THEN Raise("ValueError")
    ELSE Ok([shape |-> <<PyInt(lengths[2].value), PyInt(lengths[1].value), data.shape[3]>>,
             px |-> [rc \in Cells(PyInt(lengths[2].value), PyInt(lengths[1].value)) |->
                        <<"scale", data.px, order, Res(data), rc>>]])

\* the pair of lengths that the task reads from its inputs, lines 325 and 404
PackagePairOf(op, inputs) ==
    IF op = "imagecat.offset" THEN OptionalInput(inputs, "offset", PackagePlace)
    ELSE OptionalInput(inputs, "size", PackageSize)

\* lines 331-334 of offset and lines 407-409 of scale
PackageNewData(op, data, lengths, inputs) ==
    IF op = "imagecat.offset" THEN OffsetData(data, lengths)
    ELSE ScaleData(data, lengths, PyInt(OptionalInput(inputs, "order", Number(Int2Rat(DefaultOrder))).v))

\* image.layers[layer_name] = ..., made being the outcome of layer.modify(data=data)
PackageLayerPut(made, image, name) ==
    IF made.status # "ok" THEN made
    ELSE HOk(SetLayer(made.heap, image, name, made.value), image)

PackageLayerComputed(h, data, layer, image, name) ==
    IF data.status # "ok" THEN HRaise(h, data.status)
    ELSE PackageLayerPut(PackageModify(NewArray(h, data.value), layer), image, name)

\* the body of the loops of lines 328-334 and 406-410, for the layer of one name
PackageOneLayer(h, op, inputs, layer, image, name) ==
    PackageLayerComputed(h, PackageNewData(op, DataOf(h, layer),
                                Lengths(PackagePairOf(op, inputs), Res(DataOf(h, layer))), inputs),
                         layer, image, name)

\* the loop over the layers of the image with the names; result.value is the image
RECURSIVE PackageEachLayer(_, _, _, _)
PackageEachLayer(result, op, inputs, names) ==
    IF result.status # "ok" \/ names = <<>> THEN result
    ELSE PackageEachLayer(PackageOneLayer(result.heap, op, inputs,
                                          DictGet(LayersOf(result.heap, result.value), Str(names[1])),
                                          result.value, Str(names[1])),
                          op, inputs, Tail(names))

\* offset loops over util.match_layers(image.layers.keys(), layers), line 327, scale
\* over image.layers.items(), line 406
PackageLoopNames(op, inputs, names) ==
    IF op = "imagecat.offset"
    THEN MatchLayerNames(names, OptionalInput(inputs, "layers", Str(<<"*">>)).s)
    ELSE names

\* the loop on the image that require_image returned, which is the result
PackageLayerLoop(image, op, inputs) ==
    IF image.status # "ok" THEN image
    ELSE PackageEachLayer(image, op, inputs,
                          PackageLoopNames(op, inputs, Keys(LayersOf(image.heap, image.value))))

\* offset(name, inputs), lines 322-337
PackageOffset(h, inputs) ==
    PackageLayerLoop(PackageRequireImage(h, inputs.image), "imagecat.offset", inputs)

\* scale(name, inputs), lines 401-412
PackageScale(h, inputs) ==
    PackageLayerLoop(PackageRequireImage(h, inputs.image), "imagecat.scale", inputs)

\* Image({name: layer}) of the Layer that was made
PackageImageOf(made, name) ==
    IF made.status # "ok" THEN made
    ELSE PackageImageInit([made.heap EXCEPT !.dicts = Append(@, << <<name, made.value>> >>)],
                          DictRef(Len(made.heap.dicts) + 1))

\* text, lines 441-453: the lengths are resolved in the order fontsize, position[0],
\* position[1]; what PIL draws is uninterpreted
TextData(size, fontsize, lengths, text) ==
    IF fontsize.status # "ok" THEN Raise(fontsize.status)
    ELSE IF lengths[1].status # "ok" THEN Raise(lengths[1].status)
    ELSE IF lengths[2].status # "ok" THEN Raise(lengths[2].status)
    ELSE Ok([shape |-> <<size[2], size[1], 1>>,
             px |-> [rc \in Cells(size[2], size[1]) |->
                        <<"text", text, PyInt(fontsize.value), lengths[1].value, lengths[2].value, rc>>]])

\* Image({layer: Layer(data=data)}), line 451
PackageTextImage(h, data, layer) ==
    IF data.status # "ok" THEN HRaise(h, data.status)
    ELSE PackageImageOf(PackageLayerOf(NewArray(h, data.value)), layer)

\* text(name, inputs), lines 431-453, size being given
PackageText(h, inputs) ==
    PackageTextImage(h, TextData(inputs.size,
                                 Length(OptionalInput(inputs, "fontsize", PackageFontsize), inputs.size),
                                 Lengths(OptionalInput(inputs, "position", PackagePlace), inputs.size),
                                 OptionalInput(inputs, "text", Str(<<"T", "e", "x", "t", "!">>))),
                     OptionalInput(inputs, "layer", Str(<<"A">>)))

\* util.require_layer, util.py lines 186-195, image being the outcome of
\* require_image; components is 0 for None
PackageLayerChecked(image, layer, components) ==
    IF image.status # "ok" THEN image
    ELSE IF ~DictHas(LayersOf(image.heap, image.value), layer) THEN HRaise(image.heap, "RuntimeError")
    ELSE IF components # 0
            /\ DataOf(image.heap, DictGet(LayersOf(image.heap, image.value), layer)).shape[3] # components
      THEN HRaise(image.heap, "RuntimeError")
    ELSE PackageModify(HOk(image.heap,
                           NdArray(image.heap.layers[DictGet(LayersOf(image.heap, image.value), layer).ref].data)),
                       DictGet(LayersOf(image.heap, image.value), layer))

PackageRequireLayer(h, image, layer, components) ==
    PackageLayerChecked(PackageRequireImage(h, image), layer, components)

\* the end of util.transform, util.py lines 245-253: the two lengths, then the warp,
\* which is uninterpreted
PackageWarp(source, shape, lengths, orientation) ==
    IF lengths[1].status # "ok" THEN Raise(lengths[1].status)
    ELSE IF lengths[2].status # "ok" THEN Raise(lengths[2].status)
    ELSE Ok([shape |-> shape,
             px |-> [rc \in Cells(shape[1], shape[2]) |->
                        <<"warp", source.px, lengths[1].value, lengths[2].value, orientation, rc>>]])

\* util.transform(source, target_shape, position=..., orientation=...), util.py
\* lines 205-253: the lengths are relative to (tx, ty)
PackageTransform(source, shape, position, orientation) ==
    PackageWarp(source, shape, Lengths(position, <<shape[2], shape[1]>>), orientation)

\* lines 189-194: the blend, and Image({"C": Layer(data, components and role of the
\* background)})
PackageBlend(h, background, foreground, alpha) ==
    IF foreground.status # "ok" THEN HRaise(h, foreground.status)
    ELSE IF alpha.status # "ok" THEN HRaise(h, alpha.status)
    ELSE PackageImageOf(
            PackageModify(NewArray(h, [shape |-> DataOf(h, background).shape,
                                       px |-> [rc \in Cells(DataOf(h, background).shape[1],
                                                            DataOf(h, background).shape[2]) |->
                                                  <<"blend", foreground.value.px[rc], alpha.value.px[rc],
                                                    DataOf(h, background).px[rc]>>]]),
                          background),
            Str(<<"C">>))

\* lines 186-194, mask being the outcome of the third require_layer
PackageComposited(background, foreground, mask, inputs) ==
    IF mask.status # "ok" THEN mask
    ELSE PackageBlend(mask.heap, background,
            PackageTransform(DataOf(mask.heap, foreground), DataOf(mask.heap, background).shape,
                             OptionalInput(inputs, "position", PackagePlace),
                             OptionalInput(inputs, "orientation", Number(Zero)).v),
            PackageTransform(DataOf(mask.heap, mask.value), DataOf(mask.heap, background).shape,
                             OptionalInput(inputs, "position", PackagePlace),
                             OptionalInput(inputs, "orientation", Number(Zero)).v))

\* line 186, foreground being the outcome of the second require_layer
PackageCompositeMask(background, foreground, inputs) ==
    IF foreground.status # "ok" THEN foreground
    ELSE PackageComposited(background, foreground.value,
            PackageRequireLayer(foreground.heap, inputs.mask,
                                OptionalInput(inputs, "masklayer", Str(<<"A">>)), 1),
            inputs)

\* line 185, background being the outcome of the first require_layer
PackageCompositeForeground(background, inputs) ==
    IF background.status # "ok" THEN background
    ELSE PackageCompositeMask(background.value,
            PackageRequireLayer(background.heap, inputs.foreground,
                                OptionalInput(inputs, "fglayer", Str(<<"C">>)), 0),
            inputs)

\* composite(name, inputs), lines 177-196
PackageComposite(h, inputs) ==
    PackageCompositeForeground(
        PackageRequireLayer(h, inputs.background, OptionalInput(inputs, "bglayer", Str(<<"C">>)), 0),
        inputs)

(***************************************************************************)
(* Calls of the tasks that resolve lengths, of the package and of          *)
(* imagecat.operator, with their geometric inputs given or left out.       *)
(***************************************************************************)
PackageImageArgs == {PackageImage(4), PackageImage(5), PackageImage(6), None, ImageRef(1)}

PackageOffsetScenarios ==
    { Scenario(SequenceHeap, "imagecat.offset", [image |-> image, layers |-> layers, offset |-> offset]) :
        image \in PackageImageArgs, layers \in {None, Str(<<"C">>)},
        offset \in {None, Place(0, 0), Place(1, 0), DefaultPlace} }

PackageScaleScenarios ==
    { Scenario(SequenceHeap, "imagecat.scale", [image |-> image, order |-> None, size |-> size]) :
        image \in PackageImageArgs, size \in {None, Place(1, 1), Place(2, 1), DefaultRes} }

PackageTextScenarios ==
    { Scenario(SequenceHeap, "imagecat.text",
               [size |-> size, fontsize |-> fontsize, position |-> position, text |-> None, layer |-> None]) :
        size \in {<<2, 2>>, <<3, 2>>},
        fontsize \in {None, Str(<<"1", "p", "x">>), Str(<<"0", ".", "5", "h">>)},
        position \in {None, Place(1, 1), DefaultPlace} }

PackageCompositeScenarios ==
    { Scenario(SequenceHeap, "imagecat.composite",
               [background |-> background, foreground |-> foreground, mask |-> mask,
                bglayer |-> None, fglayer |-> None, masklayer |-> None,
                orientation |-> None, position |-> position]) :
        background \in {PackageImage(4), PackageImage(5), None},
        foreground \in {PackageImage(4), PackageImage(6)},
        mask \in {PackageImage(4), None},
        position \in {None, Place(0, 0), DefaultPlace} }

OperatorDefaultScenarios ==
    { Scenario(SequenceHeap, "offset", [image |-> image, layers |-> None, offset |-> offset]) :
        image \in {ImageRef(1), ImageRef(2)}, offset \in {None, Place(1, 0)} }
    \cup { Scenario(SequenceHeap, "resize", [image |-> image, res |-> res, order |-> None]) :
             image \in {ImageRef(1), ImageRef(2)}, res \in {None, Place(2, 1)} }
    \cup NamedLayerScenarios

DefaultsInit ==
    \E sc \in PackageOffsetScenarios \cup PackageScaleScenarios \cup PackageTextScenarios
                \cup PackageCompositeScenarios \cup OperatorDefaultScenarios :
        heap = sc[1] /\ call = sc[2]

PackageOffsetCall == Called("imagecat.offset") /\ Finish(PackageOffset(heap, call.args))

PackageScaleCall == Called("imagecat.scale") /\ Finish(PackageScale(heap, call.args))

PackageTextCall == Called("imagecat.text") /\ Finish(PackageText(heap, call.args))

PackageCompositeCall == Called("imagecat.composite") /\ Finish(PackageComposite(heap, call.args))

DefaultsNext ==
    \/ PackageOffsetCall \/ PackageScaleCall \/ PackageTextCall \/ PackageCompositeCall
    \/ OffsetCall \/ ResizeCall \/ CompositeCall

SpecDefaults == DefaultsInit /\ [][DefaultsNext]_vars

\* the spellings of units that length resolves, units.py lines 74-83
UnitSpellings ==
    { <<"p", "x">>, <<"p", "i", "x", "e", "l">>, <<"p", "i", "x", "e", "l", "s">>,
      <<"w">>, <<"w", "i", "d", "t", "h">>, <<"h">>, <<"h", "e", "i", "g", "h", "t">>,
      <<"m", "i", "n">>, <<"m", "a", "x">> }

\* the inputs of a task that are lengths, each with the default the task gives it
LengthDefaults(op) ==
    CASE op = "imagecat.composite" -> << <<"position", PackagePlace.items>> >>
      [] op = "imagecat.offset" -> << <<"offset", PackagePlace.items>> >>
      [] op = "imagecat.scale" -> << <<"size", PackageSize.items>> >>
      [] op = "imagecat.text" -> << <<"fontsize", <<PackageFontsize>> >>, <<"position", PackagePlace.items>> >>
      [] op = "composite" -> << <<"pivot", DefaultPlace.items>>, <<"position", DefaultPlace.items>> >>
      [] op = "offset" -> << <<"offset", DefaultPlace.items>> >>
      [] op = "resize" -> << <<"res", DefaultRes.items>> >>

\* the default expressions that the call used: those of the inputs it was not given
UsedDefaults ==
    UNION { {LengthDefaults(call.op)[i][2][k] : k \in DOMAIN LengthDefaults(call.op)[i][2]} :
              i \in {j \in DOMAIN LengthDefaults(call.op) : call.args[LengthDefaults(call.op)[j][1]] = None} }

\* the inputs of the call with every length it was not given replaced by a number
\* of pixels
WithPixels ==
    [name \in DOMAIN call.args |->
        IF call.args[name] = None
           /\ \E i \in DOMAIN LengthDefaults(call.op) : LengthDefaults(call.op)[i][1] = name
        THEN (IF name = "fontsize" THEN Number(One) ELSE Place(1, 1))
        ELSE call.args[name]]

\* how the task ends on the inputs
TaskStatus(h, op, inputs) ==
    CASE op = "imagecat.composite" -> PackageComposite(h, inputs).status
      [] op = "imagecat.offset" -> PackageOffset(h, inputs).status
      [] op = "imagecat.scale" -> PackageScale(h, inputs).status
      [] op = "imagecat.text" -> PackageText(h, inputs).status
      [] op = "composite" -> Composite(h, inputs, <<NoSlack, NoSlack>>).status
      [] op = "offset" -> Offset(h, inputs).status
      [] op = "resize" -> Resize(h, inputs).status

\* a task that resolves lengths ended
ResolvedLengths ==
    /\ call.op \in {"imagecat.composite", "imagecat.offset", "imagecat.scale", "imagecat.text",
                    "composite", "offset", "resize"}
    /\ call.out # Pending

\* C29: every default length expression that a task uses when a geometric input is
\* left out is accepted by length: the unit of each default is one of the spellings
\* that length resolves, and composite, offset, scale, resize and text called
\* without position, offset, size or fontsize end as they do when the lengths left
\* out are given in pixels, never with the error of an unknown unit.
C29_DefaultsResolve ==
    ResolvedLengths =>
        /\ \A default \in UsedDefaults :
              /\ LengthMatch(default.s) # <<>>
              /\ StrLower(LengthMatch(default.s)[2]) \in UnitSpellings
        /\ call.out.status = TaskStatus(call.before, call.op, WithPixels)

\* offset of the package on the image with the layers "C" and "A", offset left out:
\* length("0.5vw", ...) raises ValueError, where offset=(1, 1) succeeds
C29_UnknownDefaultUnit ==
    /\ ResolvedLengths
    /\ call.op = "imagecat.offset"
    /\ call.args.image = PackageImage(4)
    /\ call.args.offset = None
    /\ call.out.status = "ValueError"
    /\ Length(PackagePlace.items[1], <<1, 2>>).status = "ValueError"
    /\ TaskStatus(call.before, call.op, WithPixels) = "ok"

(***************************************************************************)
(* imagecat/util.py unique_name and imagecat/__init__.py add_operation.    *)
(* The graph is a graphcat.Graph: its tasks, as the entries <<name, task>> *)
(* of a dict, and its links <<source, target, input>>.  `name in graph`    *)
(* tells whether the graph has a task of that name; add_task refuses a     *)
(* name the graph has; set_parameter sets the task of the source to the    *)
(* constant and links it to the input of the target.                       *)
(***************************************************************************)
\* f"{index}" of a positive integer
RECURSIVE Decimal(_)
Decimal(index) ==
    IF index < 10 THEN <<Digits[index + 1]>>
    ELSE Append(Decimal(index \div 10), Digits[(index % 10) + 1])

\* name in graph
InGraph(graph, name) == DictHas(graph.tasks, name)

\* lines 268-270: the loop over itertools.count(start=1), from index on
RECURSIVE UniqueNameFrom(_, _, _)
UniqueNameFrom(graph, name, index) ==
    IF ~InGraph(graph, name \o Decimal(index)) THEN name \o Decimal(index)
    ELSE UniqueNameFrom(graph, name, index + 1)

\* lines 268-270 without the loop: index 1 is returned unchecked
UniqueNameOnce(graph, name) ==
    IF ~InGraph(graph, name) THEN name ELSE name \o Decimal(1)

\* unique_name(graph, name), lines 256-270
UniqueName(graph, name) ==
    IF ~InGraph(graph, name) THEN name ELSE UniqueNameFrom(graph, name, 1)

\* graph.add_task(name, fn)
AddTask(graph, name, fn) ==
    IF InGraph(graph, name) THEN Raise("ValueError")
    ELSE Ok([graph EXCEPT !.tasks = Append(@, <<name, [fn |-> fn]>>)])

\* graph.set_parameter(target, input, source, value)
SetParameter(graph, target, input, source, value) ==
    [tasks |-> DictSet(graph.tasks, source, [fn |-> "constant", value |-> value]),
     links |-> {link \in graph.links : link[1] # source} \cup {<<source, target, input>>}]

\* lines 149-151: the loop over parameters.items(); made is the graph so far with
\* the names of the parameter tasks made so far
RECURSIVE EachParameter(_, _, _)
EachParameter(made, name, parameters) ==
    IF parameters = <<>> THEN made
    ELSE EachParameter(
            [graph |-> SetParameter(made.graph, name, parameters[1][1],
                                    UniqueName(made.graph, name \o <<"/">> \o parameters[1][1]),
                                    parameters[1][2]),
             created |-> Append(made.created,
                                UniqueName(made.graph, name \o <<"/">> \o parameters[1][1]))],
            name, Tail(parameters))

\* lines 148-152, name being that of line 147 and added the outcome of add_task
OperationAdded(graph, added, name, parameters) ==
    IF added.status # "ok" THEN [status |-> added.status, value |-> <<>>, created |-> <<>>, graph |-> graph]
    ELSE [status |-> "ok", value |-> name,
          created |-> EachParameter([graph |-> added.value, created |-> <<>>], name, parameters).created,
          graph |-> EachParameter([graph |-> added.value, created |-> <<>>], name, parameters).graph]

OperationNamed(graph, name, fn, parameters) ==
    OperationAdded(graph, AddTask(graph, name, fn), name, parameters)

\* add_operation(graph, name, fn, **parameters), lines 121-152
AddOperation(graph, name, fn, parameters) ==
    OperationNamed(graph, UniqueName(graph, name), fn, parameters)

(***************************************************************************)
(* Calls of add_operation and of unique_name on one graph, which is empty  *)
(* at first.  The names requested are such that the name of a parameter    *)
(* task can be the name of a task, and a name with an index another name.  *)
(***************************************************************************)
MaxOperations == 3

TaskNames == { <<"a">>, <<"a", "1">>, <<"a", "/", "x">> }

\* **parameters: keyword names are distinct
ParameterLists ==
    { <<>>, << <<<<"x">>, Number(Zero)>> >>, << <<<<"x">>, Number(One)>> >>,
      << <<<<"x", "1">>, Number(Zero)>> >>,
      << <<<<"x">>, Number(One)>>, <<<<"x", "1">>, Number(Zero)>> >> }

GraphInit ==
    /\ heap = [tasks |-> <<>>, links |-> {}]
    /\ call = [op |-> "graphcat.Graph", args |-> <<>>, before |-> heap, n |-> 0,
               out |-> [status |-> "ok", value |-> <<>>, created |-> <<>>]]

AddOperationCall ==
    /\ call.n < MaxOperations
    /\ \E name \in TaskNames, parameters \in ParameterLists :
          /\ call' = [op |-> "add_operation",
                      args |-> [name |-> name, fn |-> "merge", parameters |-> parameters],
                      before |-> heap, n |-> call.n + 1,
                      out |-> [status |-> AddOperation(heap, name, "merge", parameters).status,
                               value |-> AddOperation(heap, name, "merge", parameters).value,
                               created |-> AddOperation(heap, name, "merge", parameters).created]]
          /\ heap' = AddOperation(heap, name, "merge", parameters).graph

UniqueNameCall ==
    /\ call.n < MaxOperations
    /\ \E name \in TaskNames :
          /\ call' = [op |-> "unique_name", args |-> [name |-> name],
                      before |-> heap, n |-> call.n + 1,
                      out |-> [status |-> "ok", value |-> UniqueName(heap, name), created |-> <<>>]]
          /\ UNCHANGED heap

GraphNext == AddOperationCall \/ UniqueNameCall

SpecGraph == GraphInit /\ [][GraphNext]_vars

\* the positive integers that can follow the name requested
Indices == 1..(Len(call.before.tasks) + 1)

\* the name requested if the graph had no task of it, else the name followed by the
\* least positive integer with which the graph had no task
LeastFree(name) ==
    IF ~InGraph(call.before, name) THEN name
    ELSE name \o Decimal(CHOOSE i \in Indices :
                            /\ ~InGraph(call.before, name \o Decimal(i))
                            /\ \A j \in 1..(i - 1) : InGraph(call.before, name \o Decimal(j)))

\* C30: task naming never overwrites.  unique_name returns the name requested when
\* the graph has no task of that name, and otherwise the name followed by the least
\* positive integer with which the graph has no task; the name that add_operation
\* returns is that name, it and the name of every parameter task it made were not in
\* the graph before they were added and differ from each other, and every task and
\* every link of the graph before the call is in the graph after it, unchanged.
C30_NamingNeverOverwrites ==
    /\ call.op = "unique_name" => call.out.value = LeastFree(call.args.name)
    /\ call.op = "add_operation" =>
          /\ call.out.status = "ok"
          /\ call.out.value = LeastFree(call.args.name)
          /\ Len(call.out.created) = Len(call.args.parameters)
          /\ \A k \in DOMAIN call.out.created :
                /\ ~InGraph(call.before, call.out.created[k])
                /\ call.out.created[k] # call.out.value
                /\ \A j \in 1..(k - 1) : call.out.created[j] # call.out.created[k]
                /\ DictGet(heap.tasks, call.out.created[k])
                      = [fn |-> "constant", value |-> call.args.parameters[k][2]]
                /\ <<call.out.created[k], call.out.value, call.args.parameters[k][1]>> \in heap.links
          /\ DictGet(heap.tasks, call.out.value) = [fn |-> call.args.fn]
          /\ Len(heap.tasks) = Len(call.before.tasks) + 1 + Len(call.args.parameters)
          /\ \A i \in DOMAIN call.before.tasks : heap.tasks[i] = call.before.tasks[i]
          /\ call.before.links \subseteq heap.links

\* the third operation named "a" with the parameter x, in a graph that has "a",
\* "a/x", "a1" and "a1/x": it is "a2", its parameter task "a2/x"
C30_Witness ==
    /\ call.op = "add_operation"
    /\ call.args.name = <<"a">>
    /\ InGraph(call.before, <<"a">>) /\ InGraph(call.before, <<"a", "1">>)
    /\ InGraph(call.before, <<"a", "1", "/", "x">>)
    /\ call.out.value = <<"a", "2">>
    /\ call.out.created = << <<"a", "2", "/", "x">> >>

====
